---- MODULE Spec2Model ----
(***************************************************************************)
(* A model of the x-card-generator pipeline: the batch orchestration of    *)
(* NameTagGenerator and its HTTP route, the extension's ProfileService /   *)
(* background / content-script profile fetch, and the page layout of the   *)
(* three PDF writers.  Each component has its own specification over the   *)
(* shared variable tuple; the variables of the other components stay at    *)
(* their initial values.                                                   *)
(***************************************************************************)
EXTENDS Integers, Sequences, FiniteSets, TLC

VARIABLES
  \* ---- batch orchestration (NameTagGenerator, routes/nameTag.ts, ProfileService.fetchBatchProfiles)
  entry,         \* who drives the batch: "route", "direct" or "extension"
  profileUrls,   \* the caller's list of URLs
  isValid,       \* URLValidator.validateProfileUrl(url).isValid, per URL
  pc,            \* position of the batch
  validUrls,     \* route: URLs that passed validation
  invalidUrls,   \* route: URLs that failed validation
  gUrls,         \* the list generateMultipleNameTags / fetchBatchProfiles iterates
  idx,           \* index of the next URL of gUrls
  contents,      \* generateMultipleNameTags: contents[]; fetchBatchProfiles: result.successful
  failed,        \* fetchBatchProfiles: result.failed
  extractCalls,  \* the URLs handed to extractProfile / fetchProfile so far, in call order
  failures,      \* the step at which each failed URL failed: sequence of <<url, step>>
  browser,       \* ProfileScraper.browser: "closed" or "open"
  outcome,       \* how generateMultipleNameTags ended
  response,      \* what the caller receives
  \* ---- page layout (BrowserPDFService, PDFService, PDFGenerator)
  impl,          \* which writer lays out: "browser", "pdfservice" or "pdfgenerator"
  nCards,        \* number of cards handed to the writer
  lopts,         \* the writer's options: paper, columns, rows, perPage, card size
  lpc,           \* position of the layout: "start", "placing", "done"
  contentIndex,  \* contentIndex / currentPosition / i: the next card to place
  currentPage,   \* currentPage of the writer's loop
  lrow,          \* PDFGenerator: row counter of the nested loops
  lcol,          \* PDFGenerator: col counter of the nested loops
  docPages,      \* pages the document holds (the PDF library opens the first one)
  placements,    \* the cards drawn so far: page, x, y, width, height
  lresult,       \* what the writer returns: status, reported page count
  rejectsNaN,    \* whether the PDF library of the build throws on a NaN coordinate
  margins,       \* PDFGenerator.options.margins (the same on all four sides)
  run,           \* how many times the writer was called with these inputs
  prevPlan,      \* what the call before this one produced
  \* ---- profile fetch (ProfileService, background script, content script)
  now,             \* Date.now(), in ms
  url,             \* the URL handed to fetchProfile
  cache,           \* ProfileService.cache, in insertion order
  lastRequestTime, \* ProfileService.lastRequestTime
  page,            \* what the page shows once it has hydrated
  hydrated,        \* whether it has
  hydrateAt,       \* when it will, or NoTimer for never
  pathname,        \* window.location.pathname of the tab
  listening,       \* whether the content script installed its message listener
  hangs,           \* whether the content script never gets to run its handler
  tab,             \* "absent", "open" or "openNoId": what tabs.query finds
  loadDelay,       \* ms a created tab takes to report 'complete', or NoTimer
  fpc,             \* fetchProfile: "idle", "rateWait", "waiting", "done"
  bpc,             \* handleProfileFetch: "idle", "query", "loading", "sent", "done"
  cpc,             \* extractProfileInfo: "idle", "polling", "grace", "answered", "hung"
  rateAt,          \* deadline of enforceRateLimit's timer
  timeoutAt,       \* deadline of fetchProfileFromContentScript's timer
  loadAt,          \* when the created tab reports 'complete'
  pollAt,          \* deadline of the content script's pending setTimeout
  pollStart,       \* startTime of waitForProfileElements
  cmsg,            \* the content script's response, on its way to the background
  bmsg,            \* the background's response, on its way to ProfileService
  canswer,         \* what the content script answered
  fresult,         \* what fetchProfile returned
  startedAt,       \* when fetchProfile was called
  finishedAt,      \* when it returned
  answeredAt,      \* when the content script answered
  calls,           \* how many times fetchProfile was called
  \* ---- URL validation (URLValidator, isValidXProfileUrl)
  typed,           \* how the address was put together: scheme, www, host, user, rest
  vurl,            \* the address as a string
  validated,       \* whether URLValidator.validateProfileUrl was called on it
  vresult,         \* what it returned
  checked,         \* whether isValidXProfileUrl was called on it
  ivalid,          \* what it returned
  \* ---- the rate limit under concurrent calls (ProfileService.enforceRateLimit)
  rnow,            \* Date.now(), in ms
  rlast,           \* ProfileService.lastRequestTime
  rpc,             \* where each call of fetchProfile is
  rwake,           \* when the setTimeout of each sleeping call fires
  loads,           \* the times at which requests left for the page, in order
  overlapped,      \* whether a call was ever made while another was in progress
  \* ---- the avatar of one card (ImageProcessor, NameTagGenerator, PDFGenerator)
  atime,           \* Date.now(), in ms
  aurl,            \* profileData.profileImageUrl: "empty" or "given"
  optionsOk,       \* whether sharp accepts the configured size, format and quality
  apc,             \* where the avatar of the card is
  pass,            \* 1: createCircularImage(url); 2: processProfileImage('') of the catch
  attempt,         \* i of the loop of downloadImage
  wakeAt,          \* when the backoff timer fires
  downloads,       \* every attempt so far: pass, i, start, end, ok
  gaveUpAt,        \* when downloadImage threw, per pass, or NoTimer
  fallbackAt,      \* when getFallbackImage was called for that, per pass, or NoTimer
  buffer,          \* profileImageBuffer: "none", "image" or "placeholder"
  acard,           \* the card: "none", "failed", or what it shows for the avatar
  \* ---- parseCount (content script)
  ctext,         \* the text handed to parseCount / the textContent of the link
  cvia,          \* "none", or how the text was read: "parseCount" or "link"
  cvalue,        \* the count returned
  \* ---- lookup strategies (content script)
  xfield,        \* the field looked up: "username", "displayName" or "avatarUrl"
  xfound,        \* what each selector of the field finds, and the pathname
  xresult,       \* the value returned and the number of strategies consulted
  \* ---- the shared generator (routes/nameTag.ts, NameTagGenerator, ProfileScraper)
  gbrowser,      \* ProfileScraper.browser: NoBrowser (null) or the browser assigned last
  gopen,         \* the browsers launched and not closed
  glaunched,     \* how many browsers were launched
  gpc,           \* position of each request
  gop,           \* the operation each request called
  gleft,         \* the URLs each request has yet to extract
  gpage,         \* the browser of the page each request works on, or NoBrowser
  gused,         \* the browsers each request launched or opened a page in
  goverlap       \* whether two operations ever ran at the same time

batchVars == <<entry, profileUrls, isValid, pc, validUrls, invalidUrls, gUrls, idx,
               contents, failed, extractCalls, failures, browser, outcome, response>>

layoutVars == <<impl, nCards, lopts, lpc, contentIndex, currentPage, lrow, lcol,
                docPages, placements, lresult, rejectsNaN, margins, run, prevPlan>>

fetchVars == <<now, url, cache, lastRequestTime, page, hydrated, hydrateAt, pathname,
               listening, hangs, tab, loadDelay, fpc, bpc, cpc, rateAt, timeoutAt, loadAt,
               pollAt, pollStart, cmsg, bmsg, canswer, fresult, startedAt, finishedAt,
               answeredAt, calls>>

urlVars == <<typed, vurl, validated, vresult, checked, ivalid>>

limiterVars == <<rnow, rlast, rpc, rwake, loads, overlapped>>

avatarVars == <<atime, aurl, optionsOk, apc, pass, attempt, wakeAt, downloads,
               gaveUpAt, fallbackAt, buffer, acard>>

countVars == <<ctext, cvia, cvalue>>

lookupVars == <<xfield, xfound, xresult>>

generatorVars == <<gbrowser, gopen, glaunched, gpc, gop, gleft, gpage, gused, goverlap>>

vars == <<batchVars, layoutVars, fetchVars, urlVars, limiterVars, avatarVars, countVars, lookupVars, generatorVars>>

\* what the actions of one component leave alone
besidesBatch == <<layoutVars, fetchVars, urlVars, limiterVars, avatarVars, countVars, lookupVars, generatorVars>>
besidesLayout == <<batchVars, fetchVars, urlVars, limiterVars, avatarVars, countVars, lookupVars, generatorVars>>
besidesFetch == <<batchVars, layoutVars, urlVars, limiterVars, avatarVars, countVars, lookupVars, generatorVars>>
besidesUrl == <<batchVars, layoutVars, fetchVars, limiterVars, avatarVars, countVars, lookupVars, generatorVars>>
besidesLimiter == <<batchVars, layoutVars, fetchVars, urlVars, avatarVars, countVars, lookupVars, generatorVars>>
besidesAvatar == <<batchVars, layoutVars, fetchVars, urlVars, limiterVars, countVars, lookupVars, generatorVars>>
besidesCount == <<batchVars, layoutVars, fetchVars, urlVars, limiterVars, avatarVars, lookupVars, generatorVars>>
besidesLookup == <<batchVars, layoutVars, fetchVars, urlVars, limiterVars, avatarVars, countVars, generatorVars>>
besidesGenerator == <<batchVars, layoutVars, fetchVars, urlVars, limiterVars, avatarVars, countVars, lookupVars>>

\* ---------------------------------------------------------------- bounds
MaxUrls == 3
\* cards per layout run
MaxCards == 9
\* largest explicit column / row count, largest explicit nameTagsPerPage
MaxGrid == 3
\* elements one selector group finds in the page
MaxEls == 2
\* the clock stops here
MaxTime == 20000

\* ---------------------------------------------------------------- helpers
Urls == 1..MaxUrls

Range(s) == {s[i] : i \in DOMAIN s}

\* Lists of pairwise different URLs, of every length up to MaxUrls.
UrlLists ==
  {s \in UNION {[1..n -> Urls] : n \in 0..MaxUrls} :
     \A i, j \in DOMAIN s : i # j => s[i] # s[j]}

\* ======================================================================
\* JavaScript numbers, as far as the layout code uses them: exact
\* fractions n/d (d > 0), +Infinity, -Infinity and NaN.  Rounding of
\* doubles is not modelled.
\* ======================================================================
Abs(x) == IF x < 0 THEN -x ELSE x

RECURSIVE Gcd(_, _)
Gcd(a, b) == IF b = 0 THEN a ELSE Gcd(b, a % b)

NaN == [k |-> "nan", n |-> 0, d |-> 1]
Inf(sign) == [k |-> "inf", n |-> sign, d |-> 1]

\* The fraction n/d in lowest terms, d # 0.
Frac(n, d) ==
  LET g == Gcd(Abs(n), Abs(d))
      sgn == IF d < 0 THEN -1 ELSE 1
  IN [k |-> "fin", n |-> sgn * (n \div g), d |-> sgn * (d \div g)]

Num(i) == [k |-> "fin", n |-> i, d |-> 1]

IsFinite(a) == a.k = "fin"
Sign(a) == IF a.n > 0 THEN 1 ELSE IF a.n < 0 THEN -1 ELSE 0

JsAdd(a, b) ==
  IF a.k = "nan" \/ b.k = "nan" THEN NaN
  ELSE IF a.k = "inf" /\ b.k = "inf" THEN (IF a.n = b.n THEN a ELSE NaN)
  ELSE IF a.k = "inf" THEN a
  ELSE IF b.k = "inf" THEN b
  ELSE Frac(a.n * b.d + b.n * a.d, a.d * b.d)

JsNeg(a) == IF a.k = "nan" THEN NaN ELSE [a EXCEPT !.n = -a.n]

JsSub(a, b) == JsAdd(a, JsNeg(b))

JsMul(a, b) ==
  IF a.k = "nan" \/ b.k = "nan" THEN NaN
  ELSE IF a.k = "inf" \/ b.k = "inf"
    THEN (IF Sign(a) = 0 \/ Sign(b) = 0 THEN NaN ELSE Inf(Sign(a) * Sign(b)))
  ELSE Frac(a.n * b.n, a.d * b.d)

\* a / b; a zero divisor is +0 wherever the layout code divides.
JsDiv(a, b) ==
  IF a.k = "nan" \/ b.k = "nan" THEN NaN
  ELSE IF a.k = "inf" /\ b.k = "inf" THEN NaN
  ELSE IF a.k = "inf" THEN (IF Sign(b) < 0 THEN Inf(-a.n) ELSE a)
  ELSE IF b.k = "inf" THEN Num(0)
  ELSE IF b.n = 0 THEN (IF a.n = 0 THEN NaN ELSE Inf(Sign(a)))
  ELSE Frac(a.n * b.d, a.d * b.n)

\* The greatest integer <= n/d (d > 0).
FloorDiv(n, d) == IF n >= 0 THEN n \div d ELSE -((-n + d - 1) \div d)

JsFloor(a) == IF a.k = "fin" THEN Num(FloorDiv(a.n, a.d)) ELSE a

JsCeil(a) == IF a.k = "fin" THEN Num(-FloorDiv(-a.n, a.d)) ELSE a

\* a < b, a <= b: false whenever NaN is involved.
JsLt(a, b) ==
  IF a.k = "nan" \/ b.k = "nan" THEN FALSE
  ELSE IF a.k = "inf" /\ b.k = "inf" THEN a.n < b.n
  ELSE IF a.k = "inf" THEN a.n < 0
  ELSE IF b.k = "inf" THEN b.n > 0
  ELSE a.n * b.d < b.n * a.d

JsLe(a, b) ==
  IF a.k = "nan" \/ b.k = "nan" THEN FALSE
  ELSE a = b \/ JsLt(a, b)

\* Math.min(a, b)
JsMin(a, b) ==
  IF a.k = "nan" \/ b.k = "nan" THEN NaN
  ELSE IF JsLt(b, a) THEN b ELSE a

\* a % b for a non-negative integer a and an integer b.
JsMod(a, b) ==
  IF a.k # "fin" \/ b.k = "nan" THEN NaN
  ELSE IF b.k = "inf" THEN a
  ELSE IF b.n = 0 THEN NaN
  ELSE Num((a.n \div a.d) % Abs(b.n \div b.d))

\* ======================================================================
\* Batch orchestration
\* ======================================================================

\* routes/nameTag.ts: the cap of POST /generate-multiple
MaxProfilesPerRequest == 20

NoResponse == [status |-> "none", cards |-> <<>>, reported |-> <<>>, error |-> "none"]

\* What the world may do to one URL inside the loop body: whether the scrape,
\* the circular image, the fallback image and the QR code succeed.
StepOutcomes ==
  [extract : BOOLEAN, image : BOOLEAN, fallback : BOOLEAN, qr : BOOLEAN]

\* The step of the loop body of generateMultipleNameTags that throws for url u
\* under outcome o, or "none".  extractProfile validates the URL first and
\* throws "Invalid URL"; a createCircularImage failure is absorbed by
\* processProfileImage('') unless that throws as well.
urlFailure(u, o) ==
  IF ~isValid[u] THEN "validation"
  ELSE IF ~o.extract THEN "extraction"
  ELSE IF ~o.image /\ ~o.fallback THEN "image"
  ELSE IF ~o.qr THEN "qr"
  ELSE "none"

\* The inner catch of generateMultipleNameTags swallows the error and the
\* for-loop goes on with the next URL.
IdxAfterFailureAborting(i, n) == n + 1
IdxAfterFailure(i, n) == i + 1

\* A request body over the cap: MaxProfilesPerRequest + 1 times one URL.  Only
\* the route is given one, its size check being what is examined.
LongLists == {[i \in 1..(MaxProfilesPerRequest + 1) |-> u] : u \in Urls}

\* the size check of POST /generate-multiple, made before the validation loop
TooManyNever(n) == FALSE
TooMany(n) == n > MaxProfilesPerRequest

\* contents.push(...) appends: the card of the URL just processed goes last.
PushContent(cs, u) == Append(cs, u)

InitBatch ==
  /\ entry \in {"route", "direct", "extension"}
  /\ profileUrls \in UrlLists \cup (IF entry = "route" THEN LongLists ELSE {})
  /\ isValid \in [Urls -> BOOLEAN]
  /\ pc = "request"
  /\ validUrls = <<>>
  /\ invalidUrls = <<>>
  /\ gUrls = <<>>
  /\ idx = 1
  /\ contents = <<>>
  /\ failed = <<>>
  /\ extractCalls = <<>>
  /\ failures = <<>>
  /\ browser = "closed"
  /\ outcome = "none"
  /\ response = NoResponse

\* The batch at rest, for the specifications of the other components.
IdleBatch ==
  /\ entry = "direct"
  /\ profileUrls = <<>>
  /\ isValid = [u \in Urls |-> TRUE]
  /\ pc = "request"
  /\ validUrls = <<>>
  /\ invalidUrls = <<>>
  /\ gUrls = <<>>
  /\ idx = 1
  /\ contents = <<>>
  /\ failed = <<>>
  /\ extractCalls = <<>>
  /\ failures = <<>>
  /\ browser = "closed"
  /\ outcome = "none"
  /\ response = NoResponse

\* POST /generate-multiple, up to the call of generateMultipleNameTags.
RouteValidate ==
  /\ entry = "route"
  /\ pc = "request"
  /\ LET v  == SelectSeq(profileUrls, LAMBDA u : isValid[u])
         iv == SelectSeq(profileUrls, LAMBDA u : ~isValid[u])
         early == IF Len(profileUrls) = 0 THEN "At least one profile URL is required"
                  ELSE IF TooMany(Len(profileUrls))
                    THEN "Maximum 20 profiles can be processed at once"
                  ELSE "none"
         err == IF early # "none" THEN early
                ELSE IF Len(v) = 0 THEN "No valid profile URLs provided"
                ELSE "none"
     IN IF err # "none"
          THEN /\ response' = [status |-> "error", cards |-> <<>>, reported |-> <<>>,
                               error |-> err]
               /\ pc' = "done"
               \* the validation loop has run unless one of the size checks threw
               /\ validUrls' = IF early # "none" THEN validUrls ELSE v
               /\ invalidUrls' = IF early # "none" THEN invalidUrls ELSE iv
               /\ UNCHANGED gUrls
          ELSE /\ validUrls' = v
               /\ invalidUrls' = iv
               /\ gUrls' = v
               /\ pc' = "loop"
               /\ UNCHANGED response
  /\ UNCHANGED <<entry, profileUrls, isValid, idx, contents, failed, extractCalls,
                 failures, browser, outcome>>
  /\ UNCHANGED besidesBatch

\* generateMultipleNameTags called directly with the caller's list.
DirectCall ==
  /\ entry = "direct"
  /\ pc = "request"
  /\ gUrls' = profileUrls
  /\ pc' = "loop"
  /\ UNCHANGED <<entry, profileUrls, isValid, validUrls, invalidUrls, idx, contents,
                 failed, extractCalls, failures, browser, outcome, response>>
  /\ UNCHANGED besidesBatch

\* One iteration of the for-loop of generateMultipleNameTags.
ProcessUrl ==
  /\ entry \in {"route", "direct"}
  /\ pc = "loop"
  /\ idx <= Len(gUrls)
  /\ \E o \in StepOutcomes :
       LET u == gUrls[idx]
           f == urlFailure(u, o)
       IN /\ extractCalls' = Append(extractCalls, u)
          \* extractProfile launches the browser once the URL has passed validation
          /\ browser' = IF isValid[u] THEN "open" ELSE browser
          /\ IF f = "none"
               THEN /\ contents' = PushContent(contents, u)
                    /\ idx' = idx + 1
                    /\ UNCHANGED failures
               ELSE /\ failures' = Append(failures, <<u, f>>)
                    /\ idx' = IdxAfterFailure(idx, Len(gUrls))
                    /\ UNCHANGED contents
  /\ UNCHANGED <<entry, profileUrls, isValid, pc, validUrls, invalidUrls, gUrls,
                 failed, outcome, response>>
  /\ UNCHANGED besidesBatch

\* After the loop: the empty check, the PDF of all cards, and the finally
\* block.  The PDF writer may reject (PDFGenerator.generateMultipleNameTags
\* catches whatever a drawing call throws and rejects with it).
FinishBatch ==
  /\ entry \in {"route", "direct"}
  /\ pc = "loop"
  /\ idx > Len(gUrls)
  /\ \E pdfOk \in BOOLEAN :
       LET out == IF Len(contents) = 0 THEN "NoValidProfiles"
                  ELSE IF pdfOk THEN "pdf" ELSE "PdfError"
       IN /\ outcome' = out
          /\ IF entry = "direct"
               THEN /\ response' =
                         [status |-> IF out = "pdf" THEN "pdf" ELSE "error",
                          cards |-> IF out = "pdf" THEN contents ELSE <<>>,
                          reported |-> <<>>,
                          error |-> IF out = "pdf" THEN "none" ELSE out]
                    /\ pc' = "done"
               ELSE /\ pc' = "respond"
                    /\ UNCHANGED response
  /\ browser' = "closed"
  /\ UNCHANGED <<entry, profileUrls, isValid, validUrls, invalidUrls, gUrls, idx,
                 contents, failed, extractCalls, failures>>
  /\ UNCHANGED besidesBatch

\* POST /generate-multiple after generateMultipleNameTags settled: the PDF with
\* the X-Invalid-URLs header, or next(error).
RouteRespond ==
  /\ entry = "route"
  /\ pc = "respond"
  /\ response' =
       IF outcome = "pdf"
         THEN [status |-> "pdf", cards |-> contents, reported |-> invalidUrls,
               error |-> "none"]
         ELSE [status |-> "error", cards |-> <<>>, reported |-> <<>>, error |-> outcome]
  /\ pc' = "done"
  /\ UNCHANGED <<entry, profileUrls, isValid, validUrls, invalidUrls, gUrls, idx,
                 contents, failed, extractCalls, failures, browser, outcome>>
  /\ UNCHANGED besidesBatch

\* The responses fetchProfile can return: success with data, or a failure
\* that always carries an error.
FetchResponses ==
  {[success |-> TRUE, error |-> "none"],
   [success |-> FALSE, error |-> "PROFILE_NOT_FOUND"],
   [success |-> FALSE, error |-> "UNKNOWN_ERROR"]}

\* ProfileService.fetchBatchProfiles: entry and one iteration of its loop.
FetchBatchStart ==
  /\ entry = "extension"
  /\ pc = "request"
  /\ gUrls' = profileUrls
  /\ pc' = "loop"
  /\ UNCHANGED <<entry, profileUrls, isValid, validUrls, invalidUrls, idx, contents,
                 failed, extractCalls, failures, browser, outcome, response>>
  /\ UNCHANGED besidesBatch

FetchBatchStep ==
  /\ entry = "extension"
  /\ pc = "loop"
  /\ idx <= Len(gUrls)
  /\ \E r \in FetchResponses :
       LET u == gUrls[idx]
           resp == IF isValid[u] THEN r
                   ELSE [success |-> FALSE, error |-> "INVALID_URL"]
       IN /\ extractCalls' = Append(extractCalls, u)
          /\ IF resp.success
               THEN /\ contents' = PushContent(contents, u)
                    /\ UNCHANGED <<failed, failures>>
               ELSE /\ IF resp.error # "none"
                         THEN failed' = Append(failed, <<u, resp.error>>)
                         ELSE UNCHANGED failed
                    /\ failures' = Append(failures, <<u, resp.error>>)
                    /\ UNCHANGED contents
  /\ idx' = idx + 1
  /\ UNCHANGED <<entry, profileUrls, isValid, pc, validUrls, invalidUrls, gUrls,
                 browser, outcome, response>>
  /\ UNCHANGED besidesBatch

FetchBatchReturn ==
  /\ entry = "extension"
  /\ pc = "loop"
  /\ idx > Len(gUrls)
  /\ response' = [status |-> "result", cards |-> contents,
                  reported |-> [i \in DOMAIN failed |-> failed[i][1]],
                  error |-> "none"]
  /\ pc' = "done"
  /\ UNCHANGED <<entry, profileUrls, isValid, validUrls, invalidUrls, gUrls, idx,
                 contents, failed, extractCalls, failures, browser, outcome>>
  /\ UNCHANGED besidesBatch

\* ---------------------------------------------------------------- claims on the batch

FailedUrls == {failures[i][1] : i \in DOMAIN failures}

\* C1: a URL that fails (validation, extraction, image or QR) never stops the
\* batch: extractProfile has been called for every URL up to the loop index,
\* the loop only ends past the last URL, and contents holds exactly the URLs
\* that did not fail, in input order.
C1_BatchContinuesInOrder ==
  (entry \in {"route", "direct"} /\ pc \in {"loop", "respond", "done"}) =>
    LET seen == SubSeq(gUrls, 1, idx - 1)
    IN /\ idx <= Len(gUrls) + 1
       /\ extractCalls = seen
       /\ contents = SelectSeq(seen, LAMBDA u : u \notin FailedUrls)
       /\ (pc # "loop" => idx = Len(gUrls) + 1)

\* The spec's scenario: three URLs, the second fails extraction, the first and
\* third are in contents in input order.
C1_Witness ==
  /\ pc = "done"
  /\ entry = "direct"
  /\ Len(gUrls) = 3
  /\ failures = << <<gUrls[2], "extraction">> >>
  /\ contents = <<gUrls[1], gUrls[3]>>
  /\ response.status = "pdf"

\* C2: every input URL is accounted for in what the caller receives: the
\* cards of the document plus the reported failures are the input URLs.
C2_AllUrlsAccounted ==
  (pc = "done" /\ response.status \in {"pdf", "result"}) =>
    /\ Len(response.cards) + Len(response.reported) = Len(profileUrls)
    /\ Range(response.cards) \cup Range(response.reported) = Range(profileUrls)

\* C3: a non-empty batch whose URLs all fail ends with a "no valid profiles"
\* error and no document; a batch with at least one good URL is answered with
\* the document.
NoValidErrors == {"NoValidProfiles", "No valid profile URLs provided"}

C3_NoValidOrSuccess ==
  (/\ pc = "done"
   /\ entry \in {"route", "direct"}
   /\ Len(profileUrls) > 0
   /\ ~TooMany(Len(profileUrls))) =>
    IF Len(contents) = 0
      THEN response.status = "error" /\ response.error \in NoValidErrors
           /\ response.cards = <<>>
      ELSE response.status = "pdf"

\* C26: a request with more than MaxProfilesPerRequest URLs is answered with
\* the "Maximum 20 profiles" error and nothing else happens for it: no URL
\* has been validated, extractProfile has not been called, the browser was
\* not launched and no card was made.
C26_OversizeBatchRejectedUpFront ==
  (entry = "route" /\ Len(profileUrls) > MaxProfilesPerRequest) =>
    /\ pc \in {"request", "done"}
    /\ pc = "done" => /\ response.status = "error"
                      /\ response.error = "Maximum 20 profiles can be processed at once"
    /\ validUrls = <<>> /\ invalidUrls = <<>> /\ gUrls = <<>>
    /\ extractCalls = <<>>
    /\ contents = <<>>
    /\ browser = "closed"

\* 21 times a valid URL, rejected.
C26_Witness ==
  /\ entry = "route"
  /\ Len(profileUrls) = MaxProfilesPerRequest + 1
  /\ isValid[profileUrls[1]]
  /\ pc = "done"
  /\ response.error = "Maximum 20 profiles can be processed at once"

NextBatch ==
  \/ RouteValidate
  \/ DirectCall
  \/ ProcessUrl
  \/ FinishBatch
  \/ RouteRespond
  \/ FetchBatchStart
  \/ FetchBatchStep
  \/ FetchBatchReturn

\* ======================================================================
\* Page layout
\* ======================================================================

\* PDFGenerator.generateMultipleNameTags: paperSizes, in points
PaperSizes ==
  [LETTER |-> [width |-> 612, height |-> 792],
   A4     |-> [width |-> 595, height |-> 842]]

\* PDFService: the page sizes PDFKit gives to 'A4', 'Letter', 'Legal', in
\* hundredths of a point
PdfKitPages ==
  [A4     |-> [width |-> 59528, height |-> 84189],
   Letter |-> [width |-> 61200, height |-> 79200],
   Legal  |-> [width |-> 61200, height |-> 100800]]

\* Card sizes tried: PDFGenerator's default, NameTagService's default template,
\* and one larger than every page.
CardSizes ==
  {[w |-> 252, h |-> 162], [w |-> 300, h |-> 200], [w |-> 700, h |-> 1100]}

\* Option values 0 stand for "not supplied" (options.columns || 2).
\* margins is what the PDFGenerator was constructed with (0: not supplied);
\* fontsLoad is whether the PDF library can load the font families it was
\* constructed with (doc.font throws when it cannot).
LayoutInputs ==
  [impl : {"browser"}, paper : {"A4"}, columns : {0}, rows : {0}, perPage : {0},
   card : {[w |-> 85, h |-> 54]}, margins : {0}, fontsLoad : {TRUE}]
  \cup
  [impl : {"pdfservice"}, paper : {"A4", "Letter", "Legal"}, columns : {0}, rows : {0},
   perPage : 0..MaxGrid, card : CardSizes, margins : {0}, fontsLoad : {TRUE}]
  \cup
  [impl : {"pdfgenerator"}, paper : {"LETTER", "A4"}, columns : 0..MaxGrid,
   rows : 0..MaxGrid, perPage : {0}, card : CardSizes, margins : {0, 20},
   fontsLoad : BOOLEAN]

\* margins: options.margins || { top: 10, bottom: 10, left: 10, right: 10 }
DefaultMargins == 10
configuredMargins == IF lopts.margins = 0 THEN DefaultMargins ELSE lopts.margins

NoPlan == [placements |-> <<>>, pages |-> 0, status |-> "none"]

NoLayoutResult == [status |-> "none", pageCount |-> Num(0)]

InitLayout ==
  /\ \E o \in LayoutInputs :
       /\ impl = o.impl
       /\ lopts = [paper |-> o.paper, columns |-> o.columns, rows |-> o.rows,
                   perPage |-> o.perPage, card |-> o.card, margins |-> o.margins,
                   fontsLoad |-> o.fontsLoad]
  /\ nCards \in 0..MaxCards
  /\ rejectsNaN \in BOOLEAN
  /\ margins = configuredMargins
  /\ run = 1
  /\ prevPlan = NoPlan
  /\ lpc = "start"
  /\ contentIndex = 0
  /\ currentPage = 0
  /\ lrow = 0
  /\ lcol = 0
  /\ docPages = 0
  /\ placements = <<>>
  /\ lresult = NoLayoutResult

\* The layout at rest, for the specifications of the other components.
IdleLayout ==
  /\ impl = "browser"
  /\ lopts = [paper |-> "A4", columns |-> 0, rows |-> 0, perPage |-> 0,
              card |-> [w |-> 85, h |-> 54], margins |-> 0, fontsLoad |-> TRUE]
  /\ nCards = 0
  /\ rejectsNaN = TRUE
  /\ margins = DefaultMargins
  /\ run = 1
  /\ prevPlan = NoPlan
  /\ lpc = "start"
  /\ contentIndex = 0
  /\ currentPage = 0
  /\ lrow = 0
  /\ lcol = 0
  /\ docPages = 0
  /\ placements = <<>>
  /\ lresult = NoLayoutResult

\* The PDF library is handed the coordinates as they were computed; whether it
\* draws at a coordinate that is not a finite number or throws is the library's
\* choice, and both are allowed for.
DrawableAt(x, y) == IsFinite(x) /\ IsFinite(y)

Placement(card, pageNo, x, y, w, h) ==
  [card |-> card, page |-> pageNo, x |-> x, y |-> y, w |-> w, h |-> h]

\* ---------------------------------------------------------------- BrowserPDFService.generatePDF

\* format 'a4', unit 'mm': the page jsPDF opens
A4WidthMm == 210
A4HeightMm == 297
BrowserMargin == 20
BrowserTagWidth == 85
BrowserTagHeight == 54
BrowserSpacing == 10

BrowserItemsPerRow ==
  JsFloor(JsDiv(Num(A4WidthMm - 2 * BrowserMargin), Num(BrowserTagWidth + BrowserSpacing)))
BrowserItemsPerColumn ==
  JsFloor(JsDiv(Num(A4HeightMm - 2 * BrowserMargin), Num(BrowserTagHeight + BrowserSpacing)))
BrowserItemsPerPage == JsMul(BrowserItemsPerRow, BrowserItemsPerColumn)

\* if (pageIndex > currentPage)
BrowserNeedsPage(pageIndex, cur) == JsLt(Num(cur), pageIndex)

BrowserStart ==
  /\ impl = "browser"
  /\ lpc = "start"
  /\ docPages' = 1
  /\ lpc' = "placing"
  /\ UNCHANGED <<rejectsNaN, margins, run, prevPlan>>
  /\ UNCHANGED <<impl, nCards, lopts, contentIndex, currentPage, lrow, lcol,
                 placements, lresult>>
  /\ UNCHANGED besidesLayout

BrowserPlace ==
  /\ impl = "browser"
  /\ lpc = "placing"
  /\ contentIndex < nCards
  /\ LET pos            == Num(contentIndex)
         pageIndex      == JsFloor(JsDiv(pos, BrowserItemsPerPage))
         positionOnPage == JsMod(pos, BrowserItemsPerPage)
         row            == JsFloor(JsDiv(positionOnPage, BrowserItemsPerRow))
         col            == JsMod(positionOnPage, BrowserItemsPerRow)
         x == JsAdd(Num(BrowserMargin),
                    JsMul(col, Num(BrowserTagWidth + BrowserSpacing)))
         y == JsAdd(Num(BrowserMargin),
                    JsMul(row, Num(BrowserTagHeight + BrowserSpacing)))
         add == BrowserNeedsPage(pageIndex, currentPage)
         pages == IF add THEN docPages + 1 ELSE docPages
     IN /\ docPages' = pages
        /\ currentPage' = IF add THEN pageIndex.n ELSE currentPage
        /\ placements' = Append(placements,
                                Placement(contentIndex, pages, x, y,
                                          BrowserTagWidth, BrowserTagHeight))
  /\ contentIndex' = contentIndex + 1
  /\ UNCHANGED <<rejectsNaN, margins, run, prevPlan>>
  /\ UNCHANGED <<impl, nCards, lopts, lpc, lrow, lcol, lresult>>
  /\ UNCHANGED besidesLayout

BrowserEnd ==
  /\ impl = "browser"
  /\ lpc = "placing"
  /\ contentIndex >= nCards
  /\ lresult' = [lresult EXCEPT !.status = "ok"]
  /\ lpc' = "done"
  /\ UNCHANGED <<rejectsNaN, margins, run, prevPlan>>
  /\ UNCHANGED <<impl, nCards, lopts, contentIndex, currentPage, lrow, lcol,
                 docPages, placements>>
  /\ UNCHANGED besidesLayout

\* ---------------------------------------------------------------- PDFService.generateMultipleNameTagsPDF

\* getDefaultPDFOptions: nameTagsPerPage: 6
DefaultNameTagsPerPage == 6
PdfServiceGap == 20
PdfServiceMaxCols == 2

nameTagsPerPage == IF lopts.perPage = 0 THEN DefaultNameTagsPerPage ELSE lopts.perPage

PdfServicePageWidth == Frac(PdfKitPages[lopts.paper].width, 100)
PdfServicePageHeight == Frac(PdfKitPages[lopts.paper].height, 100)

PdfServiceCols ==
  JsMin(Num(PdfServiceMaxCols),
        JsFloor(JsDiv(PdfServicePageWidth, Num(lopts.card.w + PdfServiceGap))))
PdfServiceRows == JsCeil(JsDiv(Num(nameTagsPerPage), PdfServiceCols))

PdfServiceStartX ==
  JsDiv(JsSub(PdfServicePageWidth,
              JsAdd(JsMul(PdfServiceCols, Num(lopts.card.w)),
                    JsMul(JsSub(PdfServiceCols, Num(1)), Num(PdfServiceGap)))),
        Num(2))
PdfServiceStartY ==
  JsDiv(JsSub(PdfServicePageHeight,
              JsAdd(JsMul(PdfServiceRows, Num(lopts.card.h)),
                    JsMul(JsSub(PdfServiceRows, Num(1)), Num(PdfServiceGap)))),
        Num(2))

\* The page break without its i > 0 guard.
PdfServiceNeedsPageEager(i, positionOnPage) == positionOnPage = Num(0)
\* if (i > 0 && positionOnPage === 0)
PdfServiceNeedsPage(i, positionOnPage) == i > 0 /\ positionOnPage = Num(0)

\* const pageCount = Math.ceil(profiles.length / pdfOptions.nameTagsPerPage)
PdfServicePageCount(n, perPage) == JsCeil(JsDiv(Num(n), Num(perPage)))

PdfServiceStart ==
  /\ impl = "pdfservice"
  /\ lpc = "start"
  /\ IF nCards = 0
       THEN /\ lresult' = [status |-> "error: No profiles provided for PDF generation",
                           pageCount |-> Num(0)]
            /\ lpc' = "done"
            /\ UNCHANGED docPages
       ELSE /\ docPages' = 1
            /\ lpc' = "placing"
            /\ UNCHANGED lresult
  /\ UNCHANGED <<rejectsNaN, margins, run, prevPlan>>
  /\ UNCHANGED <<impl, nCards, lopts, contentIndex, currentPage, lrow, lcol, placements>>
  /\ UNCHANGED besidesLayout

PdfServicePlace ==
  /\ impl = "pdfservice"
  /\ lpc = "placing"
  /\ contentIndex < nCards
  /\ LET positionOnPage == JsMod(Num(contentIndex), Num(nameTagsPerPage))
         add == PdfServiceNeedsPage(contentIndex, positionOnPage)
         pages == IF add THEN docPages + 1 ELSE docPages
         col == JsMod(positionOnPage, PdfServiceCols)
         row == JsFloor(JsDiv(positionOnPage, PdfServiceCols))
         x == JsAdd(PdfServiceStartX, JsMul(col, Num(lopts.card.w + PdfServiceGap)))
         y == JsAdd(PdfServiceStartY, JsMul(row, Num(lopts.card.h + PdfServiceGap)))
     IN /\ docPages' = pages
        /\ currentPage' = IF add THEN currentPage + 1 ELSE currentPage
        /\ IF rejectsNaN /\ ~DrawableAt(x, y)
               THEN /\ lresult' = [lresult EXCEPT
                                     !.status = "error: Failed to generate multiple name tags PDF"]
                    /\ lpc' = "done"
                    /\ UNCHANGED <<placements, contentIndex>>
               ELSE /\ placements' = Append(placements,
                                            Placement(contentIndex, pages, x, y,
                                                      lopts.card.w, lopts.card.h))
                    /\ contentIndex' = contentIndex + 1
                    /\ UNCHANGED <<lpc, lresult>>
  /\ UNCHANGED <<rejectsNaN, margins, run, prevPlan>>
  /\ UNCHANGED <<impl, nCards, lopts, lrow, lcol>>
  /\ UNCHANGED besidesLayout

PdfServiceEnd ==
  /\ impl = "pdfservice"
  /\ lpc = "placing"
  /\ contentIndex >= nCards
  /\ lresult' = [status |-> "ok", pageCount |-> PdfServicePageCount(nCards, nameTagsPerPage)]
  /\ lpc' = "done"
  /\ UNCHANGED <<rejectsNaN, margins, run, prevPlan>>
  /\ UNCHANGED <<impl, nCards, lopts, contentIndex, currentPage, lrow, lcol,
                 docPages, placements>>
  /\ UNCHANGED besidesLayout

\* ---------------------------------------------------------------- PDFGenerator.generateMultipleNameTags

PdfGenMargin == 36
DefaultColumns == 2
DefaultRows == 4

columns == IF lopts.columns = 0 THEN DefaultColumns ELSE lopts.columns
rows == IF lopts.rows = 0 THEN DefaultRows ELSE lopts.rows

tagWidth == lopts.card.w
tagHeight == lopts.card.h
pageWidth == PaperSizes[lopts.paper].width - 2 * PdfGenMargin
pageHeight == PaperSizes[lopts.paper].height - 2 * PdfGenMargin

horizontalSpace == JsDiv(Num(pageWidth - columns * tagWidth), Num(columns - 1))
verticalSpace == JsDiv(Num(pageHeight - rows * tagHeight), Num(rows - 1))

PdfGenX(col) == JsAdd(Num(PdfGenMargin), JsMul(Num(col), JsAdd(Num(tagWidth), horizontalSpace)))
PdfGenY(row) == JsAdd(Num(PdfGenMargin), JsMul(Num(row), JsAdd(Num(tagHeight), verticalSpace)))

\* if (currentPage > 0) doc.addPage()
PdfGenNeedsPage(cur) == cur > 0

PdfGenStart ==
  /\ impl = "pdfgenerator"
  /\ lpc = "start"
  /\ docPages' = 1
  /\ lpc' = "placing"
  /\ UNCHANGED <<rejectsNaN, margins, run, prevPlan>>
  /\ UNCHANGED <<impl, nCards, lopts, contentIndex, currentPage, lrow, lcol,
                 placements, lresult>>
  /\ UNCHANGED besidesLayout

\* generateNameTagAt: this.options.margins = { top: 10, bottom: 10, left: 10, right: 10 }
NameTagAtMargins == 10

\* One pass through the body of the inner for-loop, with the loop heads that
\* lead to it and the increments that follow it.
PdfGenPlace ==
  /\ impl = "pdfgenerator"
  /\ lpc = "placing"
  /\ contentIndex < nCards
  /\ LET newPage == lrow = 0 /\ lcol = 0 /\ PdfGenNeedsPage(currentPage)
         pages == IF newPage THEN docPages + 1 ELSE docPages
         next == contentIndex + 1
         rowGoesOn == lcol + 1 < columns /\ next < nCards
         pageGoesOn == lrow + 1 < rows /\ next < nCards
         x == PdfGenX(lcol)
         y == PdfGenY(lrow)
         originalMargins == margins
     IN /\ docPages' = pages
        /\ IF rejectsNaN /\ ~DrawableAt(x, y)
             THEN \* doc.translate(x, y) throws
                  /\ lresult' = [lresult EXCEPT !.status = "error: rejected"]
                  /\ lpc' = "done"
                  /\ UNCHANGED <<placements, contentIndex, lcol, lrow, currentPage,
                                 margins>>
             ELSE IF ~lopts.fontsLoad
               THEN \* generateNameTagAt: generateFrontSide throws at doc.font,
                    \* after the margins were replaced and before they are restored
                    /\ margins' = NameTagAtMargins
                    /\ lresult' = [lresult EXCEPT !.status = "error: font"]
                    /\ lpc' = "done"
                    /\ UNCHANGED <<placements, contentIndex, lcol, lrow, currentPage>>
               ELSE /\ margins' = originalMargins
                    /\ placements' = Append(placements,
                                            Placement(contentIndex, pages, x, y,
                                                      tagWidth, tagHeight))
                    /\ contentIndex' = next
                    /\ lcol' = IF rowGoesOn THEN lcol + 1 ELSE 0
                    /\ lrow' = IF rowGoesOn THEN lrow ELSE IF pageGoesOn THEN lrow + 1 ELSE 0
                    /\ currentPage' = IF rowGoesOn \/ pageGoesOn
                                        THEN currentPage ELSE currentPage + 1
                    /\ UNCHANGED <<lpc, lresult>>
  /\ UNCHANGED <<rejectsNaN, run, prevPlan>>
  /\ UNCHANGED <<impl, nCards, lopts>>
  /\ UNCHANGED besidesLayout

PdfGenEnd ==
  /\ impl = "pdfgenerator"
  /\ lpc = "placing"
  /\ contentIndex >= nCards
  /\ lresult' = [lresult EXCEPT !.status = "ok"]
  /\ lpc' = "done"
  /\ UNCHANGED <<rejectsNaN, margins, run, prevPlan>>
  /\ UNCHANGED <<impl, nCards, lopts, contentIndex, currentPage, lrow, lcol,
                 docPages, placements>>
  /\ UNCHANGED besidesLayout

\* The caller calls the same writer again, with the same arguments.
MaxRuns == 2

LayoutAgain ==
  /\ lpc = "done"
  /\ run < MaxRuns
  /\ prevPlan' = [placements |-> placements, pages |-> docPages, status |-> lresult.status]
  /\ run' = run + 1
  /\ lpc' = "start"
  /\ contentIndex' = 0
  /\ currentPage' = 0
  /\ lrow' = 0
  /\ lcol' = 0
  /\ docPages' = 0
  /\ placements' = <<>>
  /\ lresult' = NoLayoutResult
  /\ UNCHANGED <<impl, nCards, lopts, rejectsNaN, margins>>
  /\ UNCHANGED besidesLayout

NextLayout ==
  \/ BrowserStart
  \/ BrowserPlace
  \/ BrowserEnd
  \/ PdfServiceStart
  \/ PdfServicePlace
  \/ PdfServiceEnd
  \/ PdfGenStart
  \/ PdfGenPlace
  \/ PdfGenEnd
  \/ LayoutAgain

\* ---------------------------------------------------------------- claims on the layout

\* cards one page takes, per writer
ItemsPerPage ==
  CASE impl = "browser" -> BrowserItemsPerPage.n
    [] impl = "pdfservice" -> nameTagsPerPage
    [] impl = "pdfgenerator" -> columns * rows

CeilDiv(n, k) == (n + k - 1) \div k

\* C8: a writer that laid out n >= 1 cards on pages of itemsPerPage cells ends
\* with exactly ceil(n / itemsPerPage) pages, PDFService reports that same
\* number as pageCount, and every page of the document carries a card.
C8_PageCountIsCeiling ==
  (lpc = "done" /\ lresult.status = "ok" /\ nCards >= 1) =>
    /\ docPages = CeilDiv(nCards, ItemsPerPage)
    /\ impl = "pdfservice" => lresult.pageCount = Num(docPages)
    /\ \A p \in 1..docPages : \E i \in 1..Len(placements) : placements[i].page = p

\* One card more than a page takes: two pages, reported as two.
C8_Witness ==
  /\ lpc = "done"
  /\ impl = "pdfservice"
  /\ nCards = nameTagsPerPage + 1
  /\ docPages = 2
  /\ lresult.pageCount = Num(2)
  /\ placements[nCards].page = 2

\* the content area of PDFGenerator's page: the page less its 36 pt margins
InsideContentArea(p) ==
  /\ JsLe(Num(PdfGenMargin), p.x)
  /\ JsLe(JsAdd(p.x, Num(p.w)), Num(PdfGenMargin + pageWidth))
  /\ JsLe(Num(PdfGenMargin), p.y)
  /\ JsLe(JsAdd(p.y, Num(p.h)), Num(PdfGenMargin + pageHeight))

Overlap(p, q) ==
  /\ p.page = q.page
  /\ JsLt(p.x, JsAdd(q.x, Num(q.w)))
  /\ JsLt(q.x, JsAdd(p.x, Num(p.w)))
  /\ JsLt(p.y, JsAdd(q.y, Num(q.h)))
  /\ JsLt(q.y, JsAdd(p.y, Num(p.h)))

\* C9: with columns >= 1 and rows >= 1 given explicitly, PDFGenerator places
\* every card inside the content area and no two cards of a page overlap.
C9_CardsInsideNoOverlap ==
  (impl = "pdfgenerator" /\ lopts.columns >= 1 /\ lopts.rows >= 1) =>
    /\ \A i \in 1..Len(placements) : InsideContentArea(placements[i])
    /\ \A i, j \in 1..Len(placements) : i < j => ~Overlap(placements[i], placements[j])

\* the card does not fit the page less its margins even once
PdfServiceMargin == 50
CardTooLarge ==
  CASE impl = "pdfgenerator" -> tagWidth > pageWidth \/ tagHeight > pageHeight
    [] impl = "pdfservice" ->
         \/ JsLt(JsSub(PdfServicePageWidth, Num(2 * PdfServiceMargin)), Num(lopts.card.w))
         \/ JsLt(JsSub(PdfServicePageHeight, Num(2 * PdfServiceMargin)), Num(lopts.card.h))
    [] OTHER -> FALSE

\* C10: when the card is larger than the usable page area the layout places
\* nothing and ends with an error.
C10_OversizedCardRejected ==
  (CardTooLarge /\ nCards >= 1) =>
    /\ placements = <<>>
    /\ lpc = "done" => lresult.status # "ok"

\* ======================================================================
\* Profile extraction: content script, background relay, ProfileService
\* ======================================================================

\* ---------------------------------------------------------------- strings
\* A string is the sequence of its characters; a value that may be null is a
\* record saying whether it is there.
Null == [some |-> FALSE, text |-> <<>>]
Some(t) == [some |-> TRUE, text |-> t]

\* JavaScript truthiness of a string-or-null: neither null nor ''
Truthy(v) == v.some /\ v.text # <<>>

\* a || b on strings-or-null
OrElse(a, b) == IF Truthy(a) THEN a ELSE b

\* the characters of t as one string
RECURSIVE Join(_)
Join(t) == IF t = <<>> THEN "" ELSE Head(t) \o Join(Tail(t))

StartsWithAt(t) == Len(t) > 0 /\ t[1] = "@"

\* t.slice(1)
Slice1(t) == SubSeq(t, 2, Len(t))

RECURSIVE TrimStart(_)
TrimStart(t) == IF t # <<>> /\ t[1] = " " THEN TrimStart(Tail(t)) ELSE t

RECURSIVE TrimEnd(_)
TrimEnd(t) ==
  IF t # <<>> /\ t[Len(t)] = " " THEN TrimEnd(SubSeq(t, 1, Len(t) - 1)) ELSE t

\* t.trim()
Trim(t) == TrimEnd(TrimStart(t))

\* ---------------------------------------------------------------- the page
\* What the selectors of the content script find, in document order.
EmptyDom ==
  [usernameEls |-> <<>>, displayEls |-> <<>>, avatar |-> "none", extras |-> FALSE]

\* pathname.match(/^\/([^\/]+)\/?$/): the one path segment, or null
PathUsername(path) ==
  LET body == IF Len(path) >= 2 /\ path[Len(path)] = "/"
                THEN SubSeq(path, 2, Len(path) - 1)
                ELSE SubSeq(path, 2, Len(path))
  IN IF /\ Len(path) >= 1
        /\ path[1] = "/"
        /\ body # <<>>
        /\ \A i \in 1..Len(body) : body[i] # "/"
       THEN Some(body)
       ELSE Null

extractUsername(d, path) ==
  LET ats == SelectSeq(d.usernameEls, StartsWithAt)
  IN IF ats # <<>> THEN Some(Slice1(ats[1])) ELSE PathUsername(path)

extractDisplayName(d) ==
  LET names == SelectSeq(d.displayEls, LAMBDA t : t # <<>> /\ ~StartsWithAt(t))
  IN IF names # <<>> THEN Some(names[1]) ELSE Null

\* an image source counts only if it holds 'profile_images'; its size suffix
\* is replaced by _400x400
extractAvatarUrl(d) ==
  IF d.avatar = "profile_images_normal"
    THEN Some(<<"profile_images_400x400">>)
    ELSE Null

extractBio(d) == IF d.extras THEN Some(<<"b", "i", "o">>) ELSE Null
extractFollowersCount(d) == IF d.extras THEN 12 ELSE 0
extractFollowingCount(d) == IF d.extras THEN 3 ELSE 0
isVerified(d) == d.extras

Origin == <<"https://x.com">>

NoData == [some |-> FALSE, value |-> Null]

\* extractProfileInfo once waitForProfileElements has returned
extractProfileInfo(d, path) ==
  LET username == extractUsername(d, path)
  IN IF ~Truthy(username)
       THEN [success |-> FALSE, error |-> "Could not extract username from profile page",
             data |-> NoData]
       ELSE [success |-> TRUE, error |-> "",
             data |-> [some |-> TRUE, value |->
                      [username |-> username,
                       displayName |-> OrElse(extractDisplayName(d), username),
                       bio |-> OrElse(extractBio(d), Some(<<>>)),
                       avatarUrl |-> OrElse(extractAvatarUrl(d), Some(<<>>)),
                       followerCount |-> extractFollowersCount(d),
                       followingCount |-> extractFollowingCount(d),
                       verified |-> isVerified(d),
                       profileUrl |-> Some(Origin \o path)]]]

\* waitForProfileElements: hasUsername || hasDisplayName
hasProfileElements(d, path) ==
  extractUsername(d, path).some \/ extractDisplayName(d).some

\* validateXProfile: the required fields are checked as they arrive, and
\* username and displayName are trimmed afterwards
RequiredPresent(data) ==
  /\ Truthy(data.username)
  /\ Truthy(data.displayName)
  /\ Truthy(data.avatarUrl)
  /\ Truthy(data.profileUrl)

NoProfile ==
  [some |-> FALSE, username |-> <<>>, displayName |-> <<>>, bio |-> Null,
   avatarUrl |-> <<>>, profileUrl |-> <<>>, verified |-> FALSE,
   followerCount |-> 0, followingCount |-> 0]

validateXProfile(data) ==
  IF ~RequiredPresent(data)
    THEN NoProfile
    ELSE [some |-> TRUE,
          username |-> Trim(data.username.text),
          displayName |-> Trim(data.displayName.text),
          bio |-> IF Trim(data.bio.text) = <<>> THEN Null ELSE Some(Trim(data.bio.text)),
          avatarUrl |-> data.avatarUrl.text,
          profileUrl |-> data.profileUrl.text,
          verified |-> data.verified,
          followerCount |-> data.followerCount,
          followingCount |-> data.followingCount]

\* ---------------------------------------------------------------- ProfileService

CACHE_DURATION == 300000
REQUEST_TIMEOUT == 10000
MIN_REQUEST_INTERVAL == 1000
MaxCacheSize == 100

\* waitForProfileElements: timeout, pause between polls, pause once found
PollTimeout == 5000
PollInterval == 100
GraceDelay == 500

\* a timer that is not set; a delay that never ends
NoTimer == -1

\* A URL as new URL(url) parses it.
ProfileUrl == [protocol |-> "https:", hostname |-> "x.com", parts |-> <<"al">>]
InsecureUrl == [protocol |-> "http:", hostname |-> "x.com", parts |-> <<"al">>]
FetchUrls == {ProfileUrl, InsecureUrl}

ReservedPaths ==
  {"home", "explore", "notifications", "messages", "bookmarks", "lists", "settings", "help"}

isValidXProfileUrl(u) ==
  /\ u.protocol = "https:"
  /\ u.hostname \in {"x.com", "twitter.com", "www.x.com", "www.twitter.com"}
  /\ Len(u.parts) >= 1
  /\ Len(u.parts) <= 2
  /\ u.parts[1] \notin ReservedPaths

NoResult == [success |-> FALSE, code |-> "none", profile |-> NoProfile, fromCache |-> FALSE]
Failure(code) == [success |-> FALSE, code |-> code, profile |-> NoProfile, fromCache |-> FALSE]
Success(p, cached) == [success |-> TRUE, code |-> "", profile |-> p, fromCache |-> cached]

CacheKeys(c) == {c[i].url : i \in 1..Len(c)}
CacheEntry(c, u) == c[CHOOSE i \in 1..Len(c) : c[i].url = u]

CacheHitOfAnyAge(c, u, t) == u \in CacheKeys(c)

\* getCachedProfile: the entry, unless it is older than CACHE_DURATION
CacheHit(c, u, t) == u \in CacheKeys(c) /\ ~(t - CacheEntry(c, u).timestamp > CACHE_DURATION)

\* ... and an entry found too old is deleted
CacheAfterLookup(c, u, t) ==
  IF u \in CacheKeys(c) /\ ~CacheHit(c, u, t)
    THEN SelectSeq(c, LAMBDA e : e.url # u)
    ELSE c

cacheProfileDroppingSecond(c, u, p, t) ==
  LET set == Append(c, [url |-> u, profile |-> p, timestamp |-> t])
  IN IF Len(set) > MaxCacheSize THEN <<set[1]>> \o SubSeq(set, 3, Len(set)) ELSE set

\* cacheProfile: Map.set keeps the place of a key it already holds; past
\* MaxCacheSize entries the first key goes
cacheProfile(c, u, p, t) ==
  LET e == [url |-> u, profile |-> p, timestamp |-> t]
      set == IF u \in CacheKeys(c)
               THEN [i \in 1..Len(c) |-> IF c[i].url = u THEN e ELSE c[i]]
               ELSE Append(c, e)
  IN IF Len(set) > MaxCacheSize THEN Tail(set) ELSE set

\* setTimeout(..., REQUEST_TIMEOUT), armed at t
RequestDeadlineNever(t) == NoTimer
RequestDeadline(t) == t + REQUEST_TIMEOUT

NoMsg == [kind |-> "none", success |-> FALSE, error |-> "", data |-> NoData]
NoAnswer == [kind |-> "none", success |-> FALSE, error |-> "", data |-> NoData]

Pending == {rateAt, timeoutAt, loadAt, pollAt, hydrateAt} \ {NoTimer}
Due(t) == t # NoTimer /\ t <= now
Min(S) == CHOOSE x \in S : \A y \in S : x <= y

\* the document as the content script sees it now
document == IF hydrated THEN page ELSE EmptyDom

\* fetchProfile after enforceRateLimit: lastRequestTime is set, the timeout
\* timer is armed and the message leaves for the background script
SendFetch ==
  /\ lastRequestTime' = now
  /\ timeoutAt' = RequestDeadline(now)
  /\ bpc' = "query"
  /\ fpc' = "waiting"

FetchStart ==
  /\ fpc = "idle"
  /\ startedAt' = now
  /\ cache' = IF isValidXProfileUrl(url) THEN CacheAfterLookup(cache, url, now) ELSE cache
  /\ IF ~isValidXProfileUrl(url)
       THEN /\ fresult' = Failure("INVALID_URL")
            /\ fpc' = "done"
            /\ finishedAt' = now
            /\ UNCHANGED <<lastRequestTime, timeoutAt, bpc, rateAt>>
       ELSE IF CacheHit(cache, url, now)
         THEN /\ fresult' = Success(CacheEntry(cache, url).profile, TRUE)
              /\ fpc' = "done"
              /\ finishedAt' = now
              /\ UNCHANGED <<lastRequestTime, timeoutAt, bpc, rateAt>>
         ELSE IF now - lastRequestTime < MIN_REQUEST_INTERVAL
           THEN /\ rateAt' = now + (MIN_REQUEST_INTERVAL - (now - lastRequestTime))
                /\ fpc' = "rateWait"
                /\ UNCHANGED <<lastRequestTime, timeoutAt, bpc, fresult, finishedAt>>
           ELSE /\ SendFetch
                /\ UNCHANGED <<rateAt, fresult, finishedAt>>
  /\ UNCHANGED <<now, url, page, hydrated, hydrateAt, pathname, listening, hangs, tab,
                 loadDelay, cpc, loadAt, pollAt, pollStart, cmsg, bmsg, canswer, answeredAt>>
  /\ UNCHANGED calls
  /\ UNCHANGED besidesFetch

\* enforceRateLimit's timer fires
RateLimitDone ==
  /\ fpc = "rateWait"
  /\ Due(rateAt)
  /\ rateAt' = NoTimer
  /\ SendFetch
  /\ UNCHANGED <<now, url, cache, page, hydrated, hydrateAt, pathname, listening, hangs,
                 tab, loadDelay, cpc, loadAt, pollAt, pollStart, cmsg, bmsg, canswer,
                 fresult, startedAt, finishedAt, answeredAt>>
  /\ UNCHANGED calls
  /\ UNCHANGED besidesFetch

\* the timeout timer fires: resolve(null), and fetchProfile answers
\* PROFILE_NOT_FOUND
ServiceTimeout ==
  /\ fpc = "waiting"
  /\ Due(timeoutAt)
  /\ timeoutAt' = NoTimer
  /\ fresult' = Failure("PROFILE_NOT_FOUND")
  /\ fpc' = "done"
  /\ finishedAt' = now
  /\ UNCHANGED <<now, url, cache, lastRequestTime, page, hydrated, hydrateAt, pathname,
                 listening, hangs, tab, loadDelay, bpc, cpc, rateAt, loadAt, pollAt,
                 pollStart, cmsg, bmsg, canswer, startedAt, answeredAt>>
  /\ UNCHANGED calls
  /\ UNCHANGED besidesFetch

\* the sendMessage callback, and what fetchProfile does with the profile
ServiceCallback ==
  /\ bmsg.kind # "none"
  /\ bmsg' = NoMsg
  /\ timeoutAt' = NoTimer
  /\ LET profile == IF bmsg.success /\ bmsg.data.some
                      THEN validateXProfile(bmsg.data.value)
                      ELSE NoProfile
     IN IF fpc # "waiting"
          THEN UNCHANGED <<fresult, fpc, finishedAt, cache>>
          ELSE /\ fpc' = "done"
               /\ finishedAt' = now
               /\ IF profile.some
                    THEN /\ fresult' = Success(profile, FALSE)
                         /\ cache' = cacheProfile(cache, url, profile, now)
                    ELSE /\ fresult' = Failure("PROFILE_NOT_FOUND")
                         /\ UNCHANGED cache
  /\ UNCHANGED <<now, url, lastRequestTime, page, hydrated, hydrateAt, pathname, listening,
                 hangs, tab, loadDelay, bpc, cpc, rateAt, loadAt, pollAt, pollStart, cmsg,
                 canswer, startedAt, answeredAt>>
  /\ UNCHANGED calls
  /\ UNCHANGED besidesFetch

\* ---------------------------------------------------------------- background script

\* chrome.tabs.sendMessage(tab.id, {action: 'extractProfileInfo'}, callback):
\* without a listener in the tab the callback gets lastError; with one,
\* extractProfileInfo starts and waitForProfileElements takes its startTime
SendToContent ==
  /\ bpc' = "sent"
  /\ IF ~listening
       THEN /\ cmsg' = [NoMsg EXCEPT !.kind = "lastError"]
            /\ UNCHANGED <<cpc, pollAt, pollStart>>
       ELSE IF hangs
         THEN /\ cpc' = "hung"
              /\ UNCHANGED <<cmsg, pollAt, pollStart>>
         ELSE /\ cpc' = "polling"
              /\ pollStart' = now
              /\ pollAt' = now
              /\ UNCHANGED cmsg

\* handleProfileFetch up to its first wait
BackgroundQuery ==
  /\ bpc = "query"
  /\ IF tab = "absent"
       THEN /\ tab' = "open"
            /\ bpc' = "loading"
            /\ loadAt' = IF loadDelay = NoTimer THEN NoTimer ELSE now + loadDelay
            /\ UNCHANGED <<bmsg, cmsg, cpc, pollAt, pollStart>>
       ELSE IF tab = "openNoId"
         THEN /\ bmsg' = [kind |-> "response", success |-> FALSE,
                          error |-> "Tab ID not available", data |-> NoData]
              /\ bpc' = "done"
              /\ UNCHANGED <<tab, loadAt, cmsg, cpc, pollAt, pollStart>>
         ELSE /\ SendToContent
              /\ UNCHANGED <<tab, loadAt, bmsg>>
  /\ UNCHANGED <<now, url, cache, lastRequestTime, page, hydrated, hydrateAt, pathname,
                 listening, hangs, loadDelay, fpc, rateAt, timeoutAt, canswer, fresult,
                 startedAt, finishedAt, answeredAt>>
  /\ UNCHANGED calls
  /\ UNCHANGED besidesFetch

\* the created tab reports status 'complete'
TabLoaded ==
  /\ bpc = "loading"
  /\ Due(loadAt)
  /\ loadAt' = NoTimer
  /\ SendToContent
  /\ UNCHANGED <<now, url, cache, lastRequestTime, page, hydrated, hydrateAt, pathname,
                 listening, hangs, tab, loadDelay, fpc, rateAt, timeoutAt, bmsg, canswer,
                 fresult, startedAt, finishedAt, answeredAt>>
  /\ UNCHANGED calls
  /\ UNCHANGED besidesFetch

\* the callback of chrome.tabs.sendMessage
BackgroundRelay ==
  /\ bpc = "sent"
  /\ cmsg.kind # "none"
  /\ bmsg' = IF cmsg.kind = "lastError"
               THEN [kind |-> "response", success |-> FALSE, error |-> "lastError",
                     data |-> NoData]
               ELSE cmsg
  /\ cmsg' = NoMsg
  /\ bpc' = "done"
  /\ UNCHANGED <<now, url, cache, lastRequestTime, page, hydrated, hydrateAt, pathname,
                 listening, hangs, tab, loadDelay, fpc, cpc, rateAt, timeoutAt, loadAt,
                 pollAt, pollStart, canswer, fresult, startedAt, finishedAt, answeredAt>>
  /\ UNCHANGED calls
  /\ UNCHANGED besidesFetch

\* ---------------------------------------------------------------- content script

TimeoutError == "Timeout waiting for profile elements to load"

Answer(r) == [kind |-> "response", success |-> r.success, error |-> r.error, data |-> r.data]

\* one turn of the loop of waitForProfileElements; when the loop ends without
\* a find, the throw and the listener's sendResponse
ContentPoll ==
  /\ cpc = "polling"
  /\ Due(pollAt)
  /\ IF now - pollStart < PollTimeout
       THEN /\ IF hasProfileElements(document, pathname)
                 THEN /\ cpc' = "grace"
                      /\ pollAt' = now + GraceDelay
                 ELSE /\ cpc' = "polling"
                      /\ pollAt' = now + PollInterval
            /\ UNCHANGED <<cmsg, canswer, answeredAt>>
       ELSE /\ cpc' = "answered"
            /\ pollAt' = NoTimer
            /\ cmsg' = [kind |-> "response", success |-> FALSE, error |-> TimeoutError,
                        data |-> NoData]
            /\ canswer' = cmsg'
            /\ answeredAt' = now
  /\ UNCHANGED <<now, url, cache, lastRequestTime, page, hydrated, hydrateAt, pathname,
                 listening, hangs, tab, loadDelay, fpc, bpc, rateAt, timeoutAt, loadAt,
                 pollStart, bmsg, fresult, startedAt, finishedAt>>
  /\ UNCHANGED calls
  /\ UNCHANGED besidesFetch

\* the 500 ms are over: the extraction and the listener's sendResponse
ContentExtract ==
  /\ cpc = "grace"
  /\ Due(pollAt)
  /\ cpc' = "answered"
  /\ pollAt' = NoTimer
  /\ cmsg' = Answer(extractProfileInfo(document, pathname))
  /\ canswer' = cmsg'
  /\ answeredAt' = now
  /\ UNCHANGED <<now, url, cache, lastRequestTime, page, hydrated, hydrateAt, pathname,
                 listening, hangs, tab, loadDelay, fpc, bpc, rateAt, timeoutAt, loadAt,
                 pollStart, bmsg, fresult, startedAt, finishedAt>>
  /\ UNCHANGED calls
  /\ UNCHANGED besidesFetch

\* ---------------------------------------------------------------- the page and the clock

\* the page's own scripts put the profile elements in
Hydrate ==
  /\ ~hydrated
  /\ Due(hydrateAt)
  /\ hydrated' = TRUE
  /\ hydrateAt' = NoTimer
  /\ UNCHANGED <<now, url, cache, lastRequestTime, page, pathname, listening, hangs, tab,
                 loadDelay, fpc, bpc, cpc, rateAt, timeoutAt, loadAt, pollAt, pollStart,
                 cmsg, bmsg, canswer, fresult, startedAt, finishedAt, answeredAt>>
  /\ UNCHANGED calls
  /\ UNCHANGED besidesFetch

\* a step that takes no time is ready
Instant ==
  \/ fpc = "idle"
  \/ bpc = "query"
  \/ bpc = "sent" /\ cmsg.kind # "none"
  \/ bmsg.kind # "none"

\* how far the clock is followed after a call of fetchProfile
Horizon == startedAt + MaxTime

\* Time passes to the next timer, and no timer is passed over.
Advance ==
  /\ ~Instant
  /\ \A t \in Pending : t > now
  /\ now < Horizon
  /\ now' = IF Pending = {} \/ Min(Pending) > Horizon THEN Horizon ELSE Min(Pending)
  /\ UNCHANGED <<url, cache, lastRequestTime, page, hydrated, hydrateAt, pathname,
                 listening, hangs, tab, loadDelay, fpc, bpc, cpc, rateAt, timeoutAt, loadAt,
                 pollAt, pollStart, cmsg, bmsg, canswer, fresult, startedAt, finishedAt,
                 answeredAt>>
  /\ UNCHANGED calls
  /\ UNCHANGED besidesFetch

\* ---------------------------------------------------------------- initial states

AtAl == <<"@", "a", "l">>
AtSpace == <<"@", " ">>
Al == <<"A", "l">>

FullDom ==
  [usernameEls |-> <<AtAl>>, displayEls |-> <<Al>>, avatar |-> "profile_images_normal",
   extras |-> TRUE]

SeqsUpTo(S, n) == UNION {[1..k -> S] : k \in 0..n}

\* pages for the extraction: every arrangement of up to MaxEls texts per group
RichDoms ==
  [usernameEls : SeqsUpTo({AtAl, AtSpace, Al}, MaxEls),
   displayEls : SeqsUpTo({Al, AtAl}, MaxEls),
   avatar : {"none", "other", "profile_images_normal"},
   extras : BOOLEAN]

ProfilePath == <<"/", "a", "l">>
StatusPath == <<"/", "a", "l", "/", "s">>
Paths == {ProfilePath, <<"/", "a", "l", "/">>, StatusPath, <<"/">>}

\* a profile as an earlier fetch left it in the cache
CachedProfile == validateXProfile(extractProfileInfo(FullDom, ProfilePath).data.value)

\* what all fetch behaviours start from
FetchAtRest ==
  /\ now = 0
  /\ fpc = "idle"
  /\ bpc = "idle"
  /\ cpc = "idle"
  /\ rateAt = NoTimer
  /\ timeoutAt = NoTimer
  /\ loadAt = NoTimer
  /\ pollAt = NoTimer
  /\ pollStart = 0
  /\ cmsg = NoMsg
  /\ bmsg = NoMsg
  /\ canswer = NoAnswer
  /\ fresult = NoResult
  /\ startedAt = 0
  /\ finishedAt = 0
  /\ answeredAt = 0
  /\ calls = 1

\* Fetches against every environment: pages that hydrate late or never, tabs
\* that load late or never, content scripts that are absent or never answer.
InitFetch ==
  /\ FetchAtRest
  /\ url \in FetchUrls
  /\ cache \in {<<>>,
                << [url |-> ProfileUrl, profile |-> CachedProfile, timestamp |-> -1000] >>,
                << [url |-> ProfileUrl, profile |-> CachedProfile,
                    timestamp |-> -(CACHE_DURATION + 1)] >>}
  /\ lastRequestTime \in {-2000, -400, 0}
  /\ page \in {EmptyDom, FullDom}
  /\ hydrated \in BOOLEAN
  /\ hydrateAt \in IF hydrated THEN {NoTimer} ELSE {NoTimer, 1000}
  /\ pathname \in {ProfilePath, StatusPath}
  /\ listening \in BOOLEAN
  /\ hangs \in IF listening THEN BOOLEAN ELSE {FALSE}
  /\ tab \in {"absent", "open", "openNoId"}
  /\ loadDelay \in IF tab = "absent" THEN {200, 6000, NoTimer} ELSE {NoTimer}

\* Fetches against every page, in an environment that answers at once.
InitExtract ==
  /\ FetchAtRest
  /\ url = ProfileUrl
  /\ cache = <<>>
  /\ lastRequestTime = -2000
  /\ page \in RichDoms
  /\ hydrated = TRUE
  /\ hydrateAt = NoTimer
  /\ pathname \in Paths
  /\ listening \in BOOLEAN
  /\ hangs = FALSE
  /\ tab = "open"
  /\ loadDelay = NoTimer

\* The fetch at rest, for the specifications of the other components.
IdleFetch ==
  /\ FetchAtRest
  /\ url = ProfileUrl
  /\ cache = <<>>
  /\ lastRequestTime = -2000
  /\ page = EmptyDom
  /\ hydrated = TRUE
  /\ hydrateAt = NoTimer
  /\ pathname = ProfilePath
  /\ listening = TRUE
  /\ hangs = FALSE
  /\ tab = "open"
  /\ loadDelay = NoTimer

\* ---------------------------------------------------------------- in-page navigation

HomePath == <<"/", "h", "o", "m", "e">>

\* reservedPaths of isProfilePage
ContentReservedPaths ==
  {"home", "explore", "notifications", "messages", "bookmarks", "lists", "i"}

\* isProfilePage on x.com: one path segment, and it is not reserved
isProfilePage(path) ==
  /\ PathUsername(path).some
  /\ Join(PathUsername(path).text) \notin ContentReservedPaths

\* the pages a tab of x.com starts on and navigates to
TabPaths == {HomePath, ProfilePath, StatusPath}

\* A tab in which the content script has run its constructor: initialize
\* installs the message listener only if the page it starts on is a profile
\* page.
InitNav ==
  /\ FetchAtRest
  /\ url = ProfileUrl
  /\ cache = <<>>
  /\ lastRequestTime = -2 * MIN_REQUEST_INTERVAL
  /\ page \in {EmptyDom, FullDom}
  /\ hydrated = TRUE
  /\ hydrateAt = NoTimer
  /\ pathname \in TabPaths
  /\ listening = isProfilePage(pathname)
  /\ hangs = FALSE
  /\ tab = "open"
  /\ loadDelay = NoTimer

\* history.pushState of the page before a profile is fetched from the tab:
\* the address changes, and handleUrlChange notifies the background script
\* when the new page is a profile page; nothing else changes.
Navigate ==
  /\ fpc = "idle"
  /\ \E p \in TabPaths \ {pathname} : pathname' = p
  /\ UNCHANGED <<now, url, cache, lastRequestTime, page, hydrated, hydrateAt, listening,
                 hangs, tab, loadDelay, fpc, bpc, cpc, rateAt, timeoutAt, loadAt, pollAt,
                 pollStart, cmsg, bmsg, canswer, fresult, startedAt, finishedAt,
                 answeredAt, calls>>
  /\ UNCHANGED besidesFetch

NextNav ==
  \/ Navigate
  \/ FetchStart
  \/ ServiceCallback
  \/ BackgroundQuery
  \/ BackgroundRelay
  \/ ContentPoll
  \/ ContentExtract
  \/ Advance

\* every callback that is ready runs, and time passes
FairNav ==
  /\ WF_vars(ServiceCallback)
  /\ WF_vars(BackgroundQuery)
  /\ WF_vars(BackgroundRelay)
  /\ WF_vars(ContentPoll)
  /\ WF_vars(ContentExtract)
  /\ WF_vars(Advance)

\* C30: an extractProfileInfo message sent to the tab while it shows a
\* profile page is eventually answered by the content script.
C30_ProfilePageRequestAnswered ==
  (bpc = "sent" /\ isProfilePage(pathname)) ~> (cpc = "answered")

\* ---------------------------------------------------------------- repeated fetches

\* The same profile under another accepted spelling of its address, and
\* another profile.
WwwProfileUrl == [protocol |-> "https:", hostname |-> "www.x.com", parts |-> <<"al">>]
OtherProfileUrl == [protocol |-> "https:", hostname |-> "x.com", parts |-> <<"bo">>]
CacheUrls == {ProfileUrl, WwwProfileUrl, OtherProfileUrl}

\* A cache as n earlier fetches of n profiles have left it, one every
\* MIN_REQUEST_INTERVAL, the last one two intervals ago.
Filler(n) ==
  [i \in 1..n |->
     [url |-> [protocol |-> "https:", hostname |-> "x.com", parts |-> <<ToString(i)>>],
      profile |-> CachedProfile,
      timestamp |-> -((2 + n - i) * MIN_REQUEST_INTERVAL)]]

\* how long after the return of a call the caller calls again
Gaps == {200, CACHE_DURATION, CACHE_DURATION + 1}
MaxCalls == 3

\* Fetches one after the other, against a page that answers at once, with a
\* cache that is empty, one short of full, or full.
InitCache ==
  /\ FetchAtRest
  /\ url \in CacheUrls
  /\ cache \in {<<>>, Filler(MaxCacheSize - 1), Filler(MaxCacheSize)}
  /\ lastRequestTime = -2 * MIN_REQUEST_INTERVAL
  /\ page = FullDom
  /\ hydrated = TRUE
  /\ hydrateAt = NoTimer
  /\ pathname = ProfilePath
  /\ listening = TRUE
  /\ hangs = FALSE
  /\ tab = "open"
  /\ loadDelay = NoTimer

\* The caller, whose await has returned, calls fetchProfile again.
FetchAgain ==
  /\ fpc = "done"
  /\ ~Instant
  /\ Pending = {}
  /\ calls < MaxCalls
  /\ \E u \in CacheUrls, gap \in Gaps :
       /\ finishedAt + gap >= now
       /\ now' = finishedAt + gap
       /\ url' = u
  /\ calls' = calls + 1
  /\ fpc' = "idle"
  /\ fresult' = NoResult
  /\ UNCHANGED <<cache, lastRequestTime, page, hydrated, hydrateAt, pathname, listening,
                 hangs, tab, loadDelay, bpc, cpc, rateAt, timeoutAt, loadAt, pollAt,
                 pollStart, cmsg, bmsg, canswer, startedAt, finishedAt, answeredAt>>
  /\ UNCHANGED besidesFetch

NextCache ==
  \/ FetchStart
  \/ RateLimitDone
  \/ ServiceCallback
  \/ BackgroundQuery
  \/ BackgroundRelay
  \/ ContentPoll
  \/ ContentExtract
  \/ Advance
  \/ FetchAgain

NextFetch ==
  \/ FetchStart
  \/ RateLimitDone
  \/ ServiceTimeout
  \/ ServiceCallback
  \/ BackgroundQuery
  \/ TabLoaded
  \/ BackgroundRelay
  \/ ContentPoll
  \/ ContentExtract
  \/ Hydrate
  \/ Advance

NextExtract ==
  \/ FetchStart
  \/ ServiceCallback
  \/ BackgroundQuery
  \/ BackgroundRelay
  \/ ContentPoll
  \/ ContentExtract
  \/ Advance

\* C11: a layout of zero cards ends without an error and with a document of
\* 0 pages.
C11_ZeroCardsZeroPages ==
  (lpc = "done" /\ nCards = 0) => (lresult.status = "ok" /\ docPages = 0)

\* const spacing = options.spacing || 10, with no spacing supplied
DefaultSpacing == 10
spacing == DefaultSpacing

\* margin, spacing and cards per row as each writer is configured
LayoutMargin ==
  CASE impl = "browser" -> BrowserMargin
    [] impl = "pdfservice" -> PdfServiceMargin
    [] impl = "pdfgenerator" -> PdfGenMargin

LayoutSpacing ==
  CASE impl = "browser" -> BrowserSpacing
    [] impl = "pdfservice" -> PdfServiceGap
    [] impl = "pdfgenerator" -> spacing

ItemsPerRow ==
  CASE impl = "browser" -> BrowserItemsPerRow.n
    [] impl = "pdfservice" -> IF IsFinite(PdfServiceCols) THEN PdfServiceCols.n ELSE 0
    [] impl = "pdfgenerator" -> columns

RowMajor(p) ==
  LET pos == p.card % ItemsPerPage
      row == pos \div ItemsPerRow
      col == pos % ItemsPerRow
  IN /\ p.page = (p.card \div ItemsPerPage) + 1
     /\ p.x = Num(LayoutMargin + col * (p.w + LayoutSpacing))
     /\ p.y = Num(LayoutMargin + row * (p.h + LayoutSpacing))

\* C12: card i is on page floor(i / itemsPerPage), in row
\* floor((i mod itemsPerPage) / itemsPerRow) and column
\* (i mod itemsPerPage) mod itemsPerRow, at x = margin + column * (width + spacing)
\* and y = margin + row * (height + spacing); a layout that ends well has placed
\* every card exactly once.
C12_RowMajorPlacement ==
  ItemsPerRow >= 1 =>
    /\ \A k \in 1..Len(placements) : placements[k].card = k - 1 /\ RowMajor(placements[k])
    /\ (lpc = "done" /\ lresult.status = "ok") => Len(placements) = nCards

ThisPlan == [placements |-> placements, pages |-> docPages, status |-> lresult.status]

\* C13: a second run with the same inputs ends with the same placements and the
\* same page count as the first, and at the end of every run, successful or
\* failed, the generator's card margins are the ones it was configured with.
C13_RunsLeaveNoState ==
  lpc = "done" =>
    /\ run > 1 => ThisPlan = prevPlan
    /\ margins = configuredMargins

\* ---------------------------------------------------------------- URL validation
\* Strings are sequences of characters, so that the regular expressions of
\* URLValidator and the parsing of new URL() are carried out on what was typed.

\* [a-zA-Z0-9_]
WordChars ==
  {"a", "b", "c", "d", "e", "f", "g", "h", "i", "j", "k", "l", "m", "n", "o", "p",
   "q", "r", "s", "t", "u", "v", "w", "x", "y", "z", "A", "B", "C", "D", "E", "F",
   "G", "H", "I", "J", "K", "L", "M", "N", "O", "P", "Q", "R", "S", "T", "U", "V",
   "W", "X", "Y", "Z", "0", "1", "2", "3", "4", "5", "6", "7", "8", "9", "_"}

HasPrefix(t, p) == Len(t) >= Len(p) /\ SubSeq(t, 1, Len(p)) = p
Drop(t, n) == SubSeq(t, n + 1, Len(t))

\* the length of the longest prefix of t made of characters of S
RECURSIVE RunLen(_, _)
RunLen(t, S) == IF t # <<>> /\ t[1] \in S THEN 1 + RunLen(Tail(t), S) ELSE 0

\* the length of the longest prefix of t made of characters outside S
RECURSIVE RunLenNot(_, _)
RunLenNot(t, S) == IF t # <<>> /\ t[1] \notin S THEN 1 + RunLenNot(Tail(t), S) ELSE 0

Https == <<"h", "t", "t", "p", "s", ":", "/", "/">>
Http == <<"h", "t", "t", "p", ":", "/", "/">>
Www == <<"w", "w", "w", ".">>
XCom == <<"x", ".", "c", "o", "m">>
TwitterCom == <<"t", "w", "i", "t", "t", "e", "r", ".", "c", "o", "m">>
Section == <<"s", "e", "c", "t", "i", "o", "n">>
CanonicalPrefix == <<"h", "t", "t", "p", "s", ":", "/", "/", "x", ".", "c", "o", "m", "/">>

\* what ^https?:\/\/(www\.)?<host>\/ can consume of t, as the set of what is
\* left after it (empty when the head of the pattern does not match)
AfterHead(t, host) ==
  {Drop(t, Len(p)) :
     p \in {q \in {sch \o w \o host \o <<"/">> : sch \in {Https, Http}, w \in {<<>>, Www}} :
              HasPrefix(t, q)}}

\* USERNAME_PATTERN = /^[a-zA-Z0-9_]{1,15}$/
MaxUsernameLength == 15
USERNAME_PATTERN(t) ==
  Len(t) >= 1 /\ Len(t) <= MaxUsernameLength /\ \A k \in 1..Len(t) : t[k] \in WordChars

\* ([a-zA-Z0-9_]{1,15})(?:\/.*|\?.*|#.*|$)$ on what follows the host: the
\* group is a run of word characters that ends at the end of the string or at
\* one of / ? # (the strings here hold no line terminator, so that .* takes
\* whatever follows).
TailMatches(r) ==
  LET n == RunLen(r, WordChars)
  IN n >= 1 /\ n <= MaxUsernameLength /\ (n = Len(r) \/ r[n + 1] \in {"/", "?", "#"})

\* URL_PATTERNS[k].match(t): the set of usernames (match[2]) of the matches
PatternMatch(t, host) ==
  {SubSeq(r, 1, RunLen(r, WordChars)) : r \in {q \in AfterHead(t, host) : TailMatches(q)}}

\* ^https?:\/\/(www\.)?(x|twitter)\.com\/<username>#([^/\?]*) : the set of
\* fragments (fragmentMatch[3]) of the matches
FragmentMatch(t, username) ==
  LET marked == username \o <<"#">>
  IN {LET f == Drop(r, Len(marked)) IN SubSeq(f, 1, RunLenNot(f, {"/", "?"})) :
        r \in {q \in AfterHead(t, XCom) \cup AfterHead(t, TwitterCom) : HasPrefix(q, marked)}}

MaxAmbiguousFragment == 8
AmbiguousFragment(fragment) ==
  /\ fragment # <<>>
  /\ Len(fragment) <= MaxAmbiguousFragment
  /\ \A k \in 1..Len(fragment) : fragment[k] \in WordChars
  /\ fragment # Section

Invalid(why) == [isValid |-> FALSE, normalizedUrl |-> Null, username |-> Null, error |-> why]
ValidKeepingHost(username) ==
  [isValid |-> TRUE,
   normalizedUrl |-> Some(Https \o (IF typed.host = XCom THEN XCom ELSE TwitterCom)
                          \o <<"/">> \o username),
   username |-> Some(username), error |-> "none"]

Valid(username) ==
  [isValid |-> TRUE, normalizedUrl |-> Some(CanonicalPrefix \o username),
   username |-> Some(username), error |-> "none"]

\* the body of the loop over URL_PATTERNS, for a pattern that matched
ValidateMatch(trimmedUrl, username) ==
  IF ~USERNAME_PATTERN(username)
    THEN Invalid("Invalid username format")
    ELSE IF \E fragment \in FragmentMatch(trimmedUrl, username) : AmbiguousFragment(fragment)
      THEN Invalid("Ambiguous fragment")
      ELSE Valid(username)

validateProfileUrl(u) ==
  LET trimmedUrl == Trim(u)
      x == PatternMatch(trimmedUrl, XCom)
      tw == PatternMatch(trimmedUrl, TwitterCom)
  IN IF u = <<>> THEN Invalid("URL is required and must be a string")
     ELSE IF trimmedUrl = <<>> THEN Invalid("URL cannot be empty")
     ELSE IF x # {} THEN ValidateMatch(trimmedUrl, CHOOSE m \in x : TRUE)
     ELSE IF tw # {} THEN ValidateMatch(trimmedUrl, CHOOSE m \in tw : TRUE)
     ELSE Invalid("Invalid X profile URL format")

\* pathname.split('/').filter(part => part.length > 0)
RECURSIVE PathParts(_)
PathParts(t) ==
  IF t = <<>> THEN <<>>
  ELSE IF t[1] = "/" THEN PathParts(Tail(t))
  ELSE LET n == RunLenNot(t, {"/"}) IN <<Join(SubSeq(t, 1, n))>> \o PathParts(Drop(t, n))

\* new URL(u), for the addresses of this model: a scheme followed by ://, a
\* host up to the first of / ? #, a path up to the first of ? #. Without a
\* scheme or without a host the constructor throws (ok is FALSE).
Schemes == {<<"h", "t", "t", "p", "s">>, <<"h", "t", "t", "p">>, <<"f", "t", "p">>}
ParseURL(u) ==
  LET t == Trim(u)
      sch == {c \in Schemes : HasPrefix(t, c \o <<":", "/", "/">>)}
      scheme == CHOOSE c \in sch : TRUE
      afterScheme == Drop(t, Len(scheme) + 3)
      h == RunLenNot(afterScheme, {"/", "?", "#"})
      afterHost == Drop(afterScheme, h)
      pathLen == RunLenNot(afterHost, {"?", "#"})
  IN IF sch = {} \/ h = 0
       THEN [ok |-> FALSE, protocol |-> "", hostname |-> "", parts |-> <<>>]
       ELSE [ok |-> TRUE, protocol |-> Join(scheme) \o ":",
             hostname |-> Join(SubSeq(afterScheme, 1, h)),
             parts |-> PathParts(SubSeq(afterHost, 1, pathLen))]

\* isValidXProfileUrl(url: string), with its try/catch around new URL(url)
isValidXProfileUrlString(u) == ParseURL(u).ok /\ isValidXProfileUrl(ParseURL(u))

\* The addresses: every combination of a scheme, an optional www., a host, a
\* first path segment and what follows it, with or without blanks around it.
TypedSchemes == {<<"h", "t", "t", "p", "s", ":", "/", "/">>, <<"h", "t", "t", "p", ":", "/", "/">>, <<"f", "t", "p", ":", "/", "/">>, <<>>}
TypedWww == {<<>>, Www}
TypedHosts == {XCom, TwitterCom, <<"e", "x", "a", "m", "p", "l", "e", ".", "c", "o", "m">>}
TypedUsers ==
  {<<"a", "l">>,
   <<"a", "_", "1">>,
   <<"a", "1", "2", "3", "4", "5", "6", "7", "8", "9", "0", "1", "2", "3", "4">>,
   <<"a", "1", "2", "3", "4", "5", "6", "7", "8", "9", "0", "1", "2", "3", "4", "5">>,
   <<"a", "-", "l">>,
   <<"a", ".", "l">>,
   <<"a", " ", "l">>,
   <<"a", "@", "l">>,
   <<"a", "%", "2", "0", "l">>,
   <<"h", "o", "m", "e">>,
   <<"i">>,
   <<>>}
TypedRests ==
  {<<>>,
   <<"/">>,
   <<"/", "s", "t", "a", "t", "u", "s", "/", "1">>,
   <<"?", "t", "=", "1">>,
   <<"#", "s", "e", "c", "t", "i", "o", "n">>,
   <<"#", "n", "a", "m", "e">>,
   <<"#">>,
   <<"#", "a", "-", "b">>,
   <<"#", "n", "a", "m", "e", "/", "x">>,
   <<"#", "n", "i", "n", "e", "c", "h", "a", "r", "s">>,
   <<"/", "s", "t", "a", "t", "u", "s", "#", "n", "a", "m", "e">>,
   <<"?", "t", "=", "1", "#", "n", "a", "m", "e">>}
Typed ==
  [scheme : TypedSchemes, www : TypedWww, host : TypedHosts, user : TypedUsers,
   rest : TypedRests, padded : BOOLEAN]

Spell(a) ==
  LET bare == a.scheme \o a.www \o a.host \o <<"/">> \o a.user \o a.rest
  IN IF a.padded THEN <<" ", " ">> \o bare \o <<" ">> ELSE bare

NoValidation == Invalid("none")

InitUrl ==
  /\ typed \in Typed
  /\ vurl = Spell(typed)
  /\ validated = FALSE
  /\ vresult = NoValidation
  /\ checked = FALSE
  /\ ivalid = FALSE

\* No address is being validated, for the specifications of the other components.
IdleUrl ==
  /\ typed = [scheme |-> Https, www |-> <<>>, host |-> XCom, user |-> <<"a", "l">>,
              rest |-> <<>>, padded |-> FALSE]
  /\ vurl = Spell(typed)
  /\ validated = FALSE
  /\ vresult = NoValidation
  /\ checked = FALSE
  /\ ivalid = FALSE

\* The API routes and the scraper validate the address.
Validate ==
  /\ ~validated
  /\ validated' = TRUE
  /\ vresult' = validateProfileUrl(vurl)
  /\ UNCHANGED <<typed, vurl, checked, ivalid>>
  /\ UNCHANGED besidesUrl

\* The popup and ProfileService check the address.
CheckProfileUrl ==
  /\ ~checked
  /\ checked' = TRUE
  /\ ivalid' = isValidXProfileUrlString(vurl)
  /\ UNCHANGED <<typed, vurl, validated, vresult>>
  /\ UNCHANGED besidesUrl

NextUrl ==
  \/ Validate
  \/ CheckProfileUrl

\* ---------------------------------------------------------------- enforceRateLimit, concurrent calls

\* The callers of the one ProfileService (getInstance), how many requests they
\* send in all, and the steps in which time passes.
MaxCallers == 2
MaxLoads == 3
MaxClock == 3000
Callers == 1..MaxCallers
Ticks == {100, 400, 1000}

InitLimiter ==
  /\ rnow = 0
  /\ rlast = -MIN_REQUEST_INTERVAL
  /\ rpc = [c \in Callers |-> "idle"]
  /\ rwake = [c \in Callers |-> NoTimer]
  /\ loads = <<>>
  /\ overlapped = FALSE

\* No call is made, for the specifications of the other components.
IdleLimiter == InitLimiter

\* fetchProfile up to the await inside enforceRateLimit, for a URL that is
\* valid and not cached; without a wait, on to lastRequestTime = Date.now()
\* and the message to the background script
LimiterCall(c) ==
  /\ rpc[c] = "idle"
  /\ Len(loads) + Cardinality({d \in Callers : rpc[d] = "sleeping"}) < MaxLoads
  /\ overlapped' = (overlapped \/ \E d \in Callers : rpc[d] # "idle")
  /\ LET timeSinceLastRequest == rnow - rlast
     IN IF timeSinceLastRequest < MIN_REQUEST_INTERVAL
          THEN /\ rwake' = [rwake EXCEPT ![c] = rnow + (MIN_REQUEST_INTERVAL - timeSinceLastRequest)]
               /\ rpc' = [rpc EXCEPT ![c] = "sleeping"]
               /\ UNCHANGED <<rlast, loads>>
          ELSE /\ rlast' = rnow
               /\ loads' = Append(loads, rnow)
               /\ rpc' = [rpc EXCEPT ![c] = "loading"]
               /\ UNCHANGED rwake
  /\ UNCHANGED rnow
  /\ UNCHANGED besidesLimiter

\* the timer of enforceRateLimit fires: lastRequestTime = Date.now(), and the
\* message leaves
LimiterWake(c) ==
  /\ rpc[c] = "sleeping"
  /\ rwake[c] <= rnow
  /\ rwake' = [rwake EXCEPT ![c] = NoTimer]
  /\ rlast' = rnow
  /\ loads' = Append(loads, rnow)
  /\ rpc' = [rpc EXCEPT ![c] = "loading"]
  /\ UNCHANGED <<rnow, overlapped>>
  /\ UNCHANGED besidesLimiter

\* the answer arrives and fetchProfile returns
LimiterReturn(c) ==
  /\ rpc[c] = "loading"
  /\ rpc' = [rpc EXCEPT ![c] = "idle"]
  /\ UNCHANGED <<rnow, rlast, rwake, loads, overlapped>>
  /\ UNCHANGED besidesLimiter

\* Time passes, not beyond a timer that is set.
LimiterTick ==
  /\ Len(loads) < MaxLoads
  /\ \E d \in Ticks :
       /\ rnow + d <= MaxClock
       /\ \A c \in Callers : rpc[c] = "sleeping" => rnow + d <= rwake[c]
       /\ rnow' = rnow + d
  /\ UNCHANGED <<rlast, rpc, rwake, loads, overlapped>>
  /\ UNCHANGED besidesLimiter

\* ... or up to the next timer.
LimiterSleep ==
  /\ \E c \in Callers : rpc[c] = "sleeping"
  /\ \A c \in Callers : rpc[c] = "sleeping" => rwake[c] > rnow
  /\ rnow' = Min({rwake[c] : c \in {d \in Callers : rpc[d] = "sleeping"}})
  /\ UNCHANGED <<rlast, rpc, rwake, loads, overlapped>>
  /\ UNCHANGED besidesLimiter

NextLimiter ==
  \/ \E c \in Callers : LimiterCall(c)
  \/ \E c \in Callers : LimiterWake(c)
  \/ \E c \in Callers : LimiterReturn(c)
  \/ LimiterTick
  \/ LimiterSleep

\* C21: any two consecutive requests to the page leave at least
\* MIN_REQUEST_INTERVAL apart, however the calls interleave.
C21_LoadsSpacedApart ==
  \A k \in 1..(Len(loads) - 1) : loads[k + 1] - loads[k] >= MIN_REQUEST_INTERVAL

\* ---------------------------------------------------------------- the avatar of a card

\* downloadImage(url, maxRetries = 3); fetch(..., timeout: 10000)
MaxRetries == 3
DownloadTimeout == 10000
QuickAnswer == 100

\* Math.pow(2, i) * 1000
BackoffFlat(i) == 1000
Backoff(i) == (2 ^ i) * 1000

\* How one fetch of a given URL can end: an image, an error answer, or nothing
\* within the timeout.  fetch('') throws at once.
FetchOutcomes(u) ==
  IF u = "empty"
    THEN {[ok |-> FALSE, took |-> 0]}
    ELSE {[ok |-> TRUE, took |-> QuickAnswer], [ok |-> FALSE, took |-> QuickAnswer],
          [ok |-> FALSE, took |-> DownloadTimeout]}

\* the URL that downloadImage is working on
PassUrl == IF pass = 1 THEN aurl ELSE "empty"

InitAvatar ==
  /\ atime = 0
  /\ aurl \in {"empty", "given"}
  /\ optionsOk \in BOOLEAN
  /\ apc = "start"
  /\ pass = 1
  /\ attempt = 0
  /\ wakeAt = NoTimer
  /\ downloads = <<>>
  /\ gaveUpAt = <<NoTimer, NoTimer>>
  /\ fallbackAt = <<NoTimer, NoTimer>>
  /\ buffer = "none"
  /\ acard = "none"

\* No card is being made, for the specifications of the other components.
IdleAvatar ==
  /\ atime = 0
  /\ aurl = "given"
  /\ optionsOk = TRUE
  /\ apc = "start"
  /\ pass = 1
  /\ attempt = 0
  /\ wakeAt = NoTimer
  /\ downloads = <<>>
  /\ gaveUpAt = <<NoTimer, NoTimer>>
  /\ fallbackAt = <<NoTimer, NoTimer>>
  /\ buffer = "none"
  /\ acard = "none"

\* generateNameTag, step 2: createCircularImage -> processProfileImage ->
\* downloadImage enters its loop
AvatarStart ==
  /\ apc = "start"
  /\ apc' = "fetching"
  /\ UNCHANGED <<atime, aurl, optionsOk, pass, attempt, wakeAt, downloads, gaveUpAt,
                 fallbackAt, buffer, acard>>
  /\ UNCHANGED besidesAvatar

\* One pass through the body of the loop of downloadImage, up to its return,
\* its setTimeout or its throw.
AvatarAttempt ==
  /\ apc = "fetching"
  /\ \E o \in FetchOutcomes(PassUrl) :
       LET end == atime + o.took
       IN /\ atime' = end
          /\ downloads' = Append(downloads, [pass |-> pass, i |-> attempt, start |-> atime,
                                             end |-> end, ok |-> o.ok])
          /\ IF o.ok
               THEN /\ apc' = "process"
                    /\ UNCHANGED <<wakeAt, gaveUpAt>>
               ELSE IF attempt < MaxRetries - 1
                 THEN /\ apc' = "backoff"
                      /\ wakeAt' = end + Backoff(attempt)
                      /\ UNCHANGED gaveUpAt
                 ELSE /\ apc' = "fallback"
                      /\ gaveUpAt' = [gaveUpAt EXCEPT ![pass] = end]
                      /\ UNCHANGED wakeAt
  /\ UNCHANGED <<aurl, optionsOk, pass, attempt, fallbackAt, buffer, acard>>
  /\ UNCHANGED besidesAvatar

\* the backoff timer fires and the loop goes round
AvatarRetry ==
  /\ apc = "backoff"
  /\ atime' = wakeAt
  /\ wakeAt' = NoTimer
  /\ attempt' = attempt + 1
  /\ apc' = "fetching"
  /\ UNCHANGED <<aurl, optionsOk, pass, downloads, gaveUpAt, fallbackAt, buffer, acard>>
  /\ UNCHANGED besidesAvatar

\* where a buffer returned by processProfileImage goes: in the first pass to
\* the rest of createCircularImage, in the second to the PDF
AfterBuffer == IF pass = 1 THEN "composite" ELSE "draw"

\* processProfileImage, second try block: sharp decodes, resizes and encodes
\* what was downloaded, or throws
AvatarProcess ==
  /\ apc = "process"
  /\ \E decodes \in BOOLEAN :
       IF optionsOk /\ decodes
         THEN /\ buffer' = "image"
              /\ apc' = AfterBuffer
         ELSE /\ apc' = "fallback"
              /\ UNCHANGED buffer
  /\ UNCHANGED <<atime, aurl, optionsOk, pass, attempt, wakeAt, downloads, gaveUpAt,
                 fallbackAt, acard>>
  /\ UNCHANGED besidesAvatar

\* getFallbackImage (no custom fallback image): sharp renders the built-in
\* placeholder with the configured size, format and quality, or throws.  What
\* it throws leaves processProfileImage: in the first pass into the catch of
\* generateNameTag, which calls processProfileImage(''); in the second pass
\* into the outer catch, which fails the card.
AvatarFallback ==
  /\ apc = "fallback"
  /\ fallbackAt' = IF gaveUpAt[pass] # NoTimer /\ fallbackAt[pass] = NoTimer
                     THEN [fallbackAt EXCEPT ![pass] = atime]
                     ELSE fallbackAt
  /\ IF optionsOk
       THEN /\ buffer' = "placeholder"
            /\ apc' = AfterBuffer
            /\ UNCHANGED <<pass, attempt, acard>>
       ELSE IF pass = 1
         THEN /\ pass' = 2
              /\ attempt' = 0
              /\ apc' = "fetching"
              /\ UNCHANGED <<buffer, acard>>
         ELSE /\ acard' = "failed"
              /\ apc' = "done"
              /\ UNCHANGED <<pass, attempt, buffer>>
  /\ UNCHANGED <<atime, aurl, optionsOk, wakeAt, downloads, gaveUpAt>>
  /\ UNCHANGED besidesAvatar

\* createCircularImage after processProfileImage: the circular mask; when
\* sharp throws here, the catch of generateNameTag calls processProfileImage('')
AvatarComposite ==
  /\ apc = "composite"
  /\ \E composes \in BOOLEAN :
       IF composes
         THEN /\ apc' = "draw"
              /\ UNCHANGED <<pass, attempt, buffer>>
         ELSE /\ pass' = 2
              /\ attempt' = 0
              /\ buffer' = "none"
              /\ apc' = "fetching"
  /\ UNCHANGED <<atime, aurl, optionsOk, wakeAt, downloads, gaveUpAt, fallbackAt, acard>>
  /\ UNCHANGED besidesAvatar

\* generateFrontSide: doc.image embeds the buffer, or throws and the catch
\* draws a grey circle
AvatarDraw ==
  /\ apc = "draw"
  /\ \E embeds \in BOOLEAN : acard' = IF embeds THEN buffer ELSE "circle"
  /\ apc' = "done"
  /\ UNCHANGED <<atime, aurl, optionsOk, pass, attempt, wakeAt, downloads, gaveUpAt,
                 fallbackAt, buffer>>
  /\ UNCHANGED besidesAvatar

NextAvatar ==
  \/ AvatarStart
  \/ AvatarAttempt
  \/ AvatarRetry
  \/ AvatarProcess
  \/ AvatarFallback
  \/ AvatarComposite
  \/ AvatarDraw

\* C22: whatever happens to the avatar, the card is produced: with the image,
\* or with a placeholder in its place.
C22_AvatarNeverFailsCard ==
  apc = "done" => acard \in {"image", "placeholder", "circle"}

\* the attempts of one call of downloadImage
AttemptsOf(p) == SelectSeq(downloads, LAMBDA a : a.pass = p)

\* the wait the claim names after a failed attempt: 1 s after the first, 2 s
\* after the second
ClaimedWait(i) == IF i = 0 THEN 1000 ELSE 2000

CountChars == {"0", "1", "2", "5", ",", ".", "K", "M", "B"}
MaxCountLen == 4

CountTexts == UNION {[1..n -> CountChars] : n \in 0..MaxCountLen}

Digits == {"0", "1", "2", "3", "4", "5", "6", "7", "8", "9"}

DigitOf(c) == CHOOSE i \in 0..9 : ToString(i) = c

\* the number a run of digits writes; 0 for the empty run
RECURSIVE DigitsValue(_)
DigitsValue(s) ==
  IF s = <<>> THEN 0
  ELSE 10 * DigitsValue(SubSeq(s, 1, Len(s) - 1)) + DigitOf(s[Len(s)])

\* The counts are decimal numbers m * 10^e, m not a multiple of 10 unless it
\* is 0, or NaN; a product with a power of ten moves e.  Rounding of doubles
\* is not modelled.
NotANumber == [k |-> "nan", m |-> 0, e |-> 0]

RECURSIVE Dec(_, _)
Dec(m, e) ==
  IF m = 0 THEN [k |-> "fin", m |-> 0, e |-> 0]
  ELSE IF m % 10 = 0 THEN Dec(m \div 10, e + 1)
  ELSE [k |-> "fin", m |-> m, e |-> e]

\* a * 10^p
TimesPowerOfTen(a, p) == IF a.k = "nan" \/ a.m = 0 THEN a ELSE [a EXCEPT !.e = @ + p]

\* parseFloat(t) for a text without sign, blank or exponent: the longest
\* prefix of the form digits, digits "." digits or "." digits; NaN if none.
parseFloat(t) ==
  LET i == RunLen(t, Digits)
      rest == Drop(t, i)
      f == IF rest # <<>> /\ rest[1] = "." THEN RunLen(Tail(rest), Digits) ELSE 0
  IN IF i = 0 /\ f = 0 THEN NotANumber
     ELSE Dec(DigitsValue(SubSeq(t, 1, i) \o SubSeq(rest, 2, f + 1)), -f)

\* parseInt(t, 10) for a text without sign or blank
parseInt(t) ==
  LET i == RunLen(t, Digits)
  IN IF i = 0 THEN NotANumber ELSE Dec(DigitsValue(SubSeq(t, 1, i)), 0)

\* a || 0 of a number: NaN and 0 are falsy
OrZero(a) == IF a.k = "nan" THEN Dec(0, 0) ELSE a

\* countStr.replace(/,/g, '')
RemoveCommas(t) == SelectSeq(t, LAMBDA c : c # ",")

\* the multipliers 1000, 1000000 and 1000000000, as powers of ten
Multiplier(c) ==
  CASE c = "K" -> 3
    [] c = "M" -> 6
    [] c = "B" -> 9

parseCount(countStr) ==
  LET cleanStr == RemoveCommas(countStr)
      n == Len(cleanStr)
  IN IF n > 0 /\ cleanStr[n] \in {"K", "M", "B"}
       THEN TimesPowerOfTen(parseFloat(SubSeq(cleanStr, 1, n - 1)), Multiplier(cleanStr[n]))
       ELSE OrZero(parseInt(cleanStr))

\* text.match(/^([\d,\.]+[KMB]?)/): group 1, or the absence of a match
CountMatch(text) ==
  LET r == RunLen(text, Digits \cup {",", "."})
      s == IF Len(text) > r /\ text[r + 1] \in {"K", "M", "B"} THEN 1 ELSE 0
  IN IF r = 0 THEN [some |-> FALSE, text |-> <<>>]
     ELSE [some |-> TRUE, text |-> SubSeq(text, 1, r + s)]

\* extractFollowingCount, for a link with the given textContent
followingCountOf(text) ==
  LET match == CountMatch(text)
  IN IF match.some THEN parseCount(match.text) ELSE Dec(0, 0)

InitCount ==
  /\ ctext \in CountTexts
  /\ cvia = "none"
  /\ cvalue = Dec(0, 0)

IdleCount ==
  /\ ctext = <<>>
  /\ cvia = "none"
  /\ cvalue = Dec(0, 0)

\* parseCount called with the text
ParseCount ==
  /\ cvia = "none"
  /\ cvia' = "parseCount"
  /\ cvalue' = parseCount(ctext)
  /\ UNCHANGED ctext
  /\ UNCHANGED besidesCount

\* the count read off a following link whose text is the text
ExtractCount ==
  /\ cvia = "none"
  /\ cvia' = "link"
  /\ cvalue' = followingCountOf(ctext)
  /\ UNCHANGED ctext
  /\ UNCHANGED besidesCount

NextCount ==
  \/ ParseCount
  \/ ExtractCount

\* the text is digits, or digits "." digits, without commas
IsDecimal(t) ==
  LET i == RunLen(t, Digits)
      rest == Drop(t, i)
  IN /\ i >= 1
     /\ \/ rest = <<>>
        \/ /\ rest[1] = "."
           /\ Len(rest) >= 2
           /\ RunLen(Tail(rest), Digits) = Len(rest) - 1

\* the value of a text that IsDecimal
DecimalValue(t) ==
  LET i == RunLen(t, Digits)
      f == Len(t) - i - (IF Len(t) > i THEN 1 ELSE 0)
  IN Dec(DigitsValue(SelectSeq(t, LAMBDA c : c # ".")), -f)

\* C24: the count of a text is a number, never NaN; with the commas taken
\* out, a decimal number followed by K, M or B gives the number times 1e3,
\* 1e6 or 1e9, a run of digits gives its value, and a text without any digit
\* gives 0.
C24_ParseCountTotal ==
  cvia = "parseCount" =>
    LET t == RemoveCommas(ctext)
        n == Len(t)
    IN /\ cvalue.k = "fin"
       /\ (n >= 2 /\ t[n] \in {"K", "M", "B"} /\ IsDecimal(SubSeq(t, 1, n - 1))) =>
            cvalue = TimesPowerOfTen(DecimalValue(SubSeq(t, 1, n - 1)), Multiplier(t[n]))
       /\ (n >= 1 /\ RunLen(t, Digits) = n) => cvalue = Dec(DigitsValue(t), 0)
       /\ (\A i \in 1..n : t[i] \notin Digits) => cvalue = Dec(0, 0)

\* ---------------------------------------------------------------- lookup strategies

\* the selector lists of extractUsername, extractDisplayName, extractAvatarUrl
UsernameSelectors == 3
DisplayNameSelectors == 4
AvatarSelectors == 7

At == <<"@">>
OtherSrc == <<"other">>
NormalSrc == <<"profile_images_normal">>

\* What the selectors of one field find in the page.  sel[k] is what the k-th
\* selector finds: for the username the texts of all its elements
\* (querySelectorAll), for the other fields the text or src of its first
\* element or null (querySelector); bg are the background images of the
\* presentation divs.
Findings(field) ==
  CASE field = "username" ->
         [sel : [1..UsernameSelectors -> SeqsUpTo({AtAl, At, Al}, MaxEls)],
          bg : {<<>>},
          path : {ProfilePath, StatusPath}]
    [] field = "displayName" ->
         [sel : [1..DisplayNameSelectors -> {Null, Some(<<>>), Some(AtAl), Some(Al)}],
          bg : {<<>>},
          path : {ProfilePath}]
    [] field = "avatarUrl" ->
         [sel : [1..AvatarSelectors -> {Null, Some(OtherSrc), Some(NormalSrc)}],
          bg : SeqsUpTo({OtherSrc, NormalSrc}, MaxEls),
          path : {ProfilePath}]

NoFindings == [sel |-> <<>>, bg |-> <<>>, path |-> ProfilePath]

\* src.includes('profile_images'), and the replacement of the size suffix
HoldsProfileImages(src) == src = NormalSrc
LargeSrc(src) == <<"profile_images_400x400">>

\* what the body of the loop returns for the k-th selector, or null when the
\* loop goes on
UsernameYield(f, k) ==
  LET ats == SelectSeq(f.sel[k], StartsWithAt)
  IN IF ats # <<>> THEN Some(Slice1(ats[1])) ELSE Null

DisplayNameYield(f, k) ==
  LET e == f.sel[k]
  IN IF e.some /\ e.text # <<>> /\ ~StartsWithAt(e.text) THEN Some(e.text) ELSE Null

AvatarYield(f, k) ==
  LET img == f.sel[k]
  IN IF img.some /\ img.text # <<>> /\ HoldsProfileImages(img.text)
       THEN Some(LargeSrc(img.text))
       ELSE Null

\* the background-image approach
BackgroundYield(f) ==
  LET hits == SelectSeq(f.bg, HoldsProfileImages)
  IN IF hits # <<>> THEN Some(LargeSrc(hits[1])) ELSE Null

\* the strategies of a field in the order of the code, each with what it yields
Strategies(field, f) ==
  CASE field = "username" ->
         [k \in 1..(UsernameSelectors + 1) |->
            IF k <= UsernameSelectors THEN UsernameYield(f, k) ELSE PathUsername(f.path)]
    [] field = "displayName" ->
         [k \in 1..DisplayNameSelectors |-> DisplayNameYield(f, k)]
    [] field = "avatarUrl" ->
         [k \in 1..(AvatarSelectors + 1) |->
            IF k <= AvatarSelectors THEN AvatarYield(f, k) ELSE BackgroundYield(f)]

\* The loops: the first strategy from k on that returns ends the lookup; by is
\* the number of strategies consulted.
RECURSIVE LookUp(_, _)
LookUp(ys, k) ==
  IF k > Len(ys) THEN [value |-> Null, by |-> Len(ys)]
  ELSE IF ys[k].some THEN [value |-> ys[k], by |-> k]
  ELSE LookUp(ys, k + 1)

NotLookedUp == [value |-> Null, by |-> 0]

InitLookup ==
  /\ xfield \in {"username", "displayName", "avatarUrl"}
  /\ xfound \in Findings(xfield)
  /\ xresult = NotLookedUp

IdleLookup ==
  /\ xfield = "username"
  /\ xfound = NoFindings
  /\ xresult = NotLookedUp

LookUpUsername ==
  /\ xfield = "username"
  /\ xresult = NotLookedUp
  /\ xresult' = LookUp(Strategies("username", xfound), 1)
  /\ UNCHANGED <<xfield, xfound>>
  /\ UNCHANGED besidesLookup

LookUpDisplayName ==
  /\ xfield = "displayName"
  /\ xresult = NotLookedUp
  /\ xresult' = LookUp(Strategies("displayName", xfound), 1)
  /\ UNCHANGED <<xfield, xfound>>
  /\ UNCHANGED besidesLookup

LookUpAvatarUrl ==
  /\ xfield = "avatarUrl"
  /\ xresult = NotLookedUp
  /\ xresult' = LookUp(Strategies("avatarUrl", xfound), 1)
  /\ UNCHANGED <<xfield, xfound>>
  /\ UNCHANGED besidesLookup

NextLookup ==
  \/ LookUpUsername
  \/ LookUpDisplayName
  \/ LookUpAvatarUrl

\* the strategies of the field looked up that yield a non-empty value
Yielding == {k \in DOMAIN Strategies(xfield, xfound) : Truthy(Strategies(xfield, xfound)[k])}

\* C25: the lookup of a field returns what the first strategy with a
\* non-empty value yields and has consulted no strategy after it; it returns
\* no value only when no strategy yields one.
C25_FirstYieldingStrategyWins ==
  xresult # NotLookedUp =>
    IF Yielding = {}
      THEN ~Truthy(xresult.value)
      ELSE LET k == CHOOSE i \in Yielding : \A j \in Yielding : i <= j
           IN /\ xresult.value = Strategies(xfield, xfound)[k]
              /\ xresult.by = k

\* ---------------------------------------------------------------- the shared generator

\* requests that the one NameTagGenerator of routes/nameTag.ts serves
MaxRequests == 2
Requests == 1..MaxRequests

\* generateNameTag, generateSimpleNameTag, generateMultipleNameTags, validateProfile
Operations == {"single", "simple", "batch", "validate"}

\* the number of URLs of an operation
UrlCounts(op) == IF op = "batch" THEN {1, 2} ELSE {1}

NoBrowser == 0

InitGenerator ==
  /\ gbrowser = NoBrowser
  /\ gopen = {}
  /\ glaunched = 0
  /\ gpc = [r \in Requests |-> "idle"]
  /\ gop = [r \in Requests |-> "single"]
  /\ gleft = [r \in Requests |-> 0]
  /\ gpage = [r \in Requests |-> NoBrowser]
  /\ gused = [r \in Requests |-> {}]
  /\ goverlap = FALSE

IdleGenerator == InitGenerator

\* where a request goes once extractProfile has returned or thrown: the next
\* URL of a batch, else (past the steps that do not touch the browser) the
\* finally block
AfterExtract(r) == IF gop[r] = "batch" /\ gleft[r] > 1 THEN "extract" ELSE "finally"

\* a request calls one of the operations of the generator
GeneratorCall(r) ==
  /\ gpc[r] = "idle"
  /\ \E op \in Operations : \E n \in UrlCounts(op) :
       /\ gop' = [gop EXCEPT ![r] = op]
       /\ gleft' = [gleft EXCEPT ![r] = n]
  /\ gpc' = [gpc EXCEPT ![r] = "extract"]
  /\ goverlap' = (goverlap \/ \E q \in Requests \ {r} : gpc[q] \notin {"idle", "done"})
  /\ UNCHANGED <<gbrowser, gopen, glaunched, gpage, gused>>
  /\ UNCHANGED besidesGenerator

\* extractProfile up to initBrowser: an invalid URL throws before the browser
\* is touched; initBrowser launches only when this.browser is null
ExtractBegin(r) ==
  /\ gpc[r] = "extract"
  /\ \E valid \in BOOLEAN :
       gpc' = [gpc EXCEPT ![r] = IF ~valid THEN AfterExtract(r)
                                 ELSE IF gbrowser = NoBrowser THEN "launching"
                                 ELSE "newPage"]
       /\ gleft' = [gleft EXCEPT ![r] = IF valid THEN @ ELSE @ - 1]
  /\ UNCHANGED <<gbrowser, gopen, glaunched, gop, gpage, gused, goverlap>>
  /\ UNCHANGED besidesGenerator

\* puppeteer.launch resolves and this.browser is assigned
Launched(r) ==
  /\ gpc[r] = "launching"
  /\ glaunched' = glaunched + 1
  /\ gopen' = gopen \cup {glaunched + 1}
  /\ gbrowser' = glaunched + 1
  /\ gused' = [gused EXCEPT ![r] = @ \cup {glaunched + 1}]
  /\ gpc' = [gpc EXCEPT ![r] = "newPage"]
  /\ UNCHANGED <<gop, gleft, gpage, goverlap>>
  /\ UNCHANGED besidesGenerator

\* this.browser!.newPage(): throws on null and on a closed browser
NewPage(r) ==
  /\ gpc[r] = "newPage"
  /\ IF gbrowser \in gopen
       THEN /\ gpage' = [gpage EXCEPT ![r] = gbrowser]
            /\ gused' = [gused EXCEPT ![r] = @ \cup {gbrowser}]
            /\ gpc' = [gpc EXCEPT ![r] = "working"]
            /\ UNCHANGED gleft
       ELSE /\ gpc' = [gpc EXCEPT ![r] = AfterExtract(r)]
            /\ gleft' = [gleft EXCEPT ![r] = @ - 1]
            /\ UNCHANGED <<gpage, gused>>
  /\ UNCHANGED <<gbrowser, gopen, glaunched, gop, goverlap>>
  /\ UNCHANGED besidesGenerator

\* goto, waitForSelector and evaluate on the page, with whatever outcome, and
\* page.close() in the finally block
PageWork(r) ==
  /\ gpc[r] = "working"
  /\ gpage' = [gpage EXCEPT ![r] = NoBrowser]
  /\ gpc' = [gpc EXCEPT ![r] = AfterExtract(r)]
  /\ gleft' = [gleft EXCEPT ![r] = @ - 1]
  /\ UNCHANGED <<gbrowser, gopen, glaunched, gop, gused, goverlap>>
  /\ UNCHANGED besidesGenerator

\* close(): await this.browser.close() when this.browser is set
CloseBegin(r) ==
  /\ gpc[r] = "finally"
  /\ IF gbrowser # NoBrowser
       THEN /\ gopen' = gopen \ {gbrowser}
            /\ gpc' = [gpc EXCEPT ![r] = "closed"]
       ELSE /\ gpc' = [gpc EXCEPT ![r] = "done"]
            /\ UNCHANGED gopen
  /\ UNCHANGED <<gbrowser, glaunched, gop, gleft, gpage, gused, goverlap>>
  /\ UNCHANGED besidesGenerator

\* close(): this.browser = null, and the operation settles
CloseEnd(r) ==
  /\ gpc[r] = "closed"
  /\ gbrowser' = NoBrowser
  /\ gpc' = [gpc EXCEPT ![r] = "done"]
  /\ UNCHANGED <<gopen, glaunched, gop, gleft, gpage, gused, goverlap>>
  /\ UNCHANGED besidesGenerator

NextGenerator ==
  \/ \E r \in Requests : GeneratorCall(r)
  \/ \E r \in Requests : ExtractBegin(r)
  \/ \E r \in Requests : Launched(r)
  \/ \E r \in Requests : NewPage(r)
  \/ \E r \in Requests : PageWork(r)
  \/ \E r \in Requests : CloseBegin(r)
  \/ \E r \in Requests : CloseEnd(r)

\* C27: when an operation of the generator has finished, every browser it
\* launched or opened a page in has been closed.
C27_BrowserClosedAtFinish ==
  \A r \in Requests : gpc[r] = "done" => gused[r] \cap gopen = {}

\* C29: the browser of a page that a request is working on is open.
C29_BrowserStaysOpenWhileUsed ==
  \A r \in Requests : gpc[r] = "working" => gpage[r] \in gopen

\* ---------------------------------------------------------------- claims on the URLs

\* C14: every accepted spelling of an address (either scheme, with or without
\* www., either host, whatever follows the first path segment) validates to
\* https://x.com/<username> and to the username that was typed as the first
\* path segment, and the canonical address validates to the same result.
C14_SpellingsShareCanonicalUrl ==
  (validated /\ vresult.isValid) =>
    /\ vresult.normalizedUrl = Some(CanonicalPrefix \o typed.user)
    /\ vresult.username = Some(typed.user)
    /\ validateProfileUrl(vresult.normalizedUrl.text) = vresult

C14_Witness ==
  /\ validated
  /\ vresult.isValid
  /\ typed.scheme = Http
  /\ typed.www = Www
  /\ typed.host = TwitterCom
  /\ typed.rest = <<"?", "t", "=", "1">>
  /\ typed.padded

ReservedWords == ReservedPaths \cup {"i"}
GoodUsername(segment) == USERNAME_PATTERN(segment) /\ Join(segment) \notin ReservedWords

\* C15: neither validator reports an address as valid unless its first path
\* segment is 1 to 15 letters, digits and underscores and is not a reserved word.
C15_ValidOnlyWithGoodUsername ==
  /\ (validated /\ vresult.isValid) => GoodUsername(typed.user)
  /\ (checked /\ ivalid) => GoodUsername(typed.user)

\* what follows the first # of an address, and the address without it
HasFragment(rest) == \E k \in 1..Len(rest) : rest[k] = "#"
FragmentOf(rest) == Drop(rest, RunLenNot(rest, {"#"}) + 1)
WithoutFragment(a) == [a EXCEPT !.rest = SubSeq(a.rest, 1, RunLenNot(a.rest, {"#"}))]

\* C16: an address that is acceptable without its fragment is rejected when the
\* fragment is at most 8 letters, digits and underscores and not "section", and
\* is otherwise accepted with the canonical URL of the address without the fragment.
C16_FragmentRule ==
  LET bare == validateProfileUrl(Spell(WithoutFragment(typed)))
  IN (validated /\ HasFragment(typed.rest) /\ bare.isValid) =>
       IF AmbiguousFragment(FragmentOf(typed.rest))
         THEN ~vresult.isValid
         ELSE vresult.isValid /\ vresult.normalizedUrl = bare.normalizedUrl

\* ---------------------------------------------------------------- claims on the fetch

FetchBound == MIN_REQUEST_INTERVAL + REQUEST_TIMEOUT

\* the request went out, and the tab never loads, the content script never
\* answers, or the page never hydrates
Unanswerable ==
  /\ bpc # "idle"
  /\ \/ bpc = "loading" /\ loadDelay = NoTimer
     \/ cpc = "hung"
     \/ ~hydrated /\ hydrateAt = NoTimer

\* C4: fetchProfile returns at most MIN_REQUEST_INTERVAL + REQUEST_TIMEOUT ms
\* after it was called, whatever the tab, the page and the content script do,
\* and against a tab that never loads, a content script that never answers or
\* a page that never hydrates what it returns is a failure.
C4_FetchEndsInTime ==
  /\ fpc \in {"rateWait", "waiting"} => now - startedAt <= FetchBound
  /\ fpc = "done" => finishedAt - startedAt <= FetchBound
  /\ (fpc = "done" /\ Unanswerable) => ~fresult.success

\* The longest wait: a full rate-limit pause, then a tab that never loads.
C4_Witness ==
  /\ fpc = "done"
  /\ finishedAt - startedAt = FetchBound
  /\ bpc = "loading"
  /\ loadDelay = NoTimer
  /\ fresult = Failure("PROFILE_NOT_FOUND")

NoUsernameElement(d) == SelectSeq(d.usernameEls, StartsWithAt) = <<>>

\* C5: a profile that fetchProfile returns, and one that the content script
\* answers with, has a non-empty username; without a username element the
\* username is the URL's path segment, and without that either the content
\* script answers with an error.
C5_UsernameNeverEmpty ==
  /\ (fpc = "done" /\ fresult.success) => fresult.profile.username # <<>>
  /\ (cpc = "answered" /\ canswer.success) => canswer.data.value.username.text # <<>>
  /\ (cpc = "answered" /\ canswer.error # TimeoutError /\ NoUsernameElement(page)) =>
       IF PathUsername(pathname).some
         THEN canswer.success /\ canswer.data.value.username = PathUsername(pathname)
         ELSE ~canswer.success

\* C6: when the content script resolved a username, fetchProfile succeeds
\* whatever else the page lacks: the display name falls back to the username,
\* bio, counts and verified flag to their defaults, and a missing avatar does
\* not fail the fetch.
C6_OtherFieldsDefault ==
  (/\ fpc = "done"
   /\ cpc = "answered"
   /\ canswer.success
   /\ Trim(canswer.data.value.username.text) # <<>>) =>
    /\ fresult.success
    /\ ~extractDisplayName(page).some => fresult.profile.displayName = fresult.profile.username
    /\ ~page.extras => /\ fresult.profile.bio = Null
                       /\ fresult.profile.followerCount = 0
                       /\ fresult.profile.followingCount = 0
                       /\ ~fresult.profile.verified

\* C7: when the page has neither a username element nor a display-name
\* element, the content script answers PollTimeout ms after the request or
\* later, with success = false and the timeout error.
C7_NoElementsTimesOut ==
  (cpc = "answered" /\ NoUsernameElement(page) /\ ~extractDisplayName(page).some) =>
    /\ ~canswer.success
    /\ canswer.error = TimeoutError
    /\ answeredAt - pollStart >= PollTimeout

\* the canonical URL of the profile that is fetched (ProfileUrl)
CanonicalProfileUrl == Origin \o ProfilePath

\* C17: the profileUrl of every profile that a fetch returns is the canonical
\* URL of the profile asked for, whatever address the tab shows.
C17_ProfileUrlCanonical ==
  (fpc = "done" /\ fresult.success) => fresult.profile.profileUrl = CanonicalProfileUrl

\* only the timer of fetchProfileFromContentScript can end the fetch: the tab
\* never finishes loading, or the content script never answers
EndedByTimeout ==
  /\ fpc = "done"
  /\ finishedAt - lastRequestTime = REQUEST_TIMEOUT
  /\ \/ bpc = "loading" /\ loadDelay = NoTimer
     \/ cpc = "hung"

\* C23: a fetch that ended because of the timeout returns a failure whose
\* code is none of the codes of the other failures: not PROFILE_NOT_FOUND,
\* which is the code of a profile that does not exist, and not INVALID_URL.
C23_TimeoutIsItsOwnKind ==
  EndedByTimeout =>
    /\ ~fresult.success
    /\ fresult.code \notin {"PROFILE_NOT_FOUND", "INVALID_URL"}

\* ---------------------------------------------------------------- claims on the cache

\* the entries of the cache under the URL of the call that are at most
\* CACHE_DURATION old
FreshEntries ==
  {i \in 1..Len(cache) : cache[i].url = url /\ now - cache[i].timestamp <= CACHE_DURATION}

\* fetchProfile takes its first step, on a URL it accepts
LooksUp == fpc = "idle" /\ fpc' # "idle" /\ isValidXProfileUrl(url)

\* C18: a call for a URL cached at most 5 minutes ago returns that profile with
\* fromCache = true and sends nothing to the page; a call for a URL cached
\* longer ago, or not cached, goes on to the page.
C18_CacheServedWithinTtl ==
  [][LooksUp =>
       IF FreshEntries # {}
         THEN /\ fpc' = "done"
              /\ fresult'.success
              /\ fresult'.fromCache
              /\ \E i \in FreshEntries : fresult'.profile = cache[i].profile
              /\ UNCHANGED <<bpc, lastRequestTime, timeoutAt>>
         ELSE fpc' \in {"rateWait", "waiting"}]_vars

C18_Witness ==
  /\ fpc = "done"
  /\ fresult.success
  /\ fresult.fromCache
  /\ calls > 1
  /\ bpc = "done"
  /\ url \in CacheKeys(cache)
  /\ startedAt - CacheEntry(cache, url).timestamp = CACHE_DURATION

\* what the address of a profile normalizes to
Canonical(u) == [protocol |-> "https:", hostname |-> "x.com", parts |-> <<u.parts[1]>>]

\* C19: the cache holds one entry for each canonical URL, and a call for an
\* address whose canonical URL was cached at most 5 minutes ago, under whatever
\* spelling, is served from the cache.
C19_CacheKeyedByCanonicalUrl ==
  /\ \A i, j \in 1..Len(cache) :
       Canonical(cache[i].url) = Canonical(cache[j].url) => i = j
  /\ (fpc \in {"rateWait", "waiting"}) =>
       ~\E i \in 1..Len(cache) :
          /\ Canonical(cache[i].url) = Canonical(url)
          /\ startedAt - cache[i].timestamp <= CACHE_DURATION

Oldest(c, i) == \A j \in 1..Len(c) : c[i].timestamp <= c[j].timestamp

\* C20: the cache never holds more than 100 entries, and when a new key is
\* put into a full cache, exactly one entry goes, one that no entry is older than.
C20_CacheBoundedOldestEvicted ==
  /\ [](Len(cache) <= MaxCacheSize)
  /\ [][(CacheKeys(cache') \ CacheKeys(cache) # {} /\ Len(cache) = MaxCacheSize) =>
          \E i \in 1..Len(cache) :
            /\ Oldest(cache, i)
            /\ CacheKeys(cache) \ CacheKeys(cache') = {cache[i].url}]_vars

C20_Witness ==
  /\ fpc = "done"
  /\ fresult.success
  /\ ~fresult.fromCache
  /\ Len(cache) = MaxCacheSize
  /\ cache[Len(cache)].url = url
  /\ Filler(MaxCacheSize)[1].url \notin CacheKeys(cache)
  /\ Filler(MaxCacheSize)[2].url \notin CacheKeys(cache)

\* ======================================================================
\* Specifications
\* ======================================================================
Init == InitBatch /\ IdleLayout /\ IdleFetch /\ IdleUrl /\ IdleLimiter /\ IdleAvatar /\ IdleCount /\ IdleLookup /\ IdleGenerator

Next == NextBatch

Spec == Init /\ [][Next]_vars

LayoutInit == IdleBatch /\ InitLayout /\ IdleFetch /\ IdleUrl /\ IdleLimiter /\ IdleAvatar /\ IdleCount /\ IdleLookup /\ IdleGenerator

LayoutNext == NextLayout

LayoutSpec == LayoutInit /\ [][LayoutNext]_vars

FetchInit == IdleBatch /\ IdleLayout /\ InitFetch /\ IdleUrl /\ IdleLimiter /\ IdleAvatar /\ IdleCount /\ IdleLookup /\ IdleGenerator

FetchNext == NextFetch

FetchSpec == FetchInit /\ [][FetchNext]_vars

ExtractInit == IdleBatch /\ IdleLayout /\ InitExtract /\ IdleUrl /\ IdleLimiter /\ IdleAvatar /\ IdleCount /\ IdleLookup /\ IdleGenerator

ExtractNext == NextExtract

ExtractSpec == ExtractInit /\ [][ExtractNext]_vars

UrlInit == IdleBatch /\ IdleLayout /\ IdleFetch /\ InitUrl /\ IdleLimiter /\ IdleAvatar /\ IdleCount /\ IdleLookup /\ IdleGenerator
UrlNext == NextUrl
UrlSpec == UrlInit /\ [][UrlNext]_vars

CacheInit == IdleBatch /\ IdleLayout /\ InitCache /\ IdleUrl /\ IdleLimiter /\ IdleAvatar /\ IdleCount /\ IdleLookup /\ IdleGenerator
CacheNext == NextCache
CacheSpec == CacheInit /\ [][CacheNext]_vars

LimiterInit == IdleBatch /\ IdleLayout /\ IdleFetch /\ IdleUrl /\ InitLimiter /\ IdleAvatar /\ IdleCount /\ IdleLookup /\ IdleGenerator
LimiterNext == NextLimiter
LimiterSpec == LimiterInit /\ [][LimiterNext]_vars

AvatarInit == IdleBatch /\ IdleLayout /\ IdleFetch /\ IdleUrl /\ IdleLimiter /\ InitAvatar /\ IdleCount /\ IdleLookup /\ IdleGenerator
AvatarNext == NextAvatar
AvatarSpec == AvatarInit /\ [][AvatarNext]_vars

CountInit == IdleBatch /\ IdleLayout /\ IdleFetch /\ IdleUrl /\ IdleLimiter /\ IdleAvatar /\ InitCount /\ IdleLookup /\ IdleGenerator
CountNext == NextCount
CountSpec == CountInit /\ [][CountNext]_vars

LookupInit == IdleBatch /\ IdleLayout /\ IdleFetch /\ IdleUrl /\ IdleLimiter /\ IdleAvatar /\ IdleCount /\ InitLookup /\ IdleGenerator
LookupNext == NextLookup
LookupSpec == LookupInit /\ [][LookupNext]_vars

GeneratorInit == IdleBatch /\ IdleLayout /\ IdleFetch /\ IdleUrl /\ IdleLimiter /\ IdleAvatar /\ IdleCount /\ IdleLookup /\ InitGenerator
GeneratorNext == NextGenerator
GeneratorSpec == GeneratorInit /\ [][GeneratorNext]_vars

NavInit == IdleBatch /\ IdleLayout /\ InitNav /\ IdleUrl /\ IdleLimiter /\ IdleAvatar /\ IdleCount /\ IdleLookup /\ IdleGenerator
NavNext == NextNav
NavSpec == NavInit /\ [][NavNext]_vars /\ FairNav

====
